---------------------------- MODULE Spec2Model ----------------------------
(***************************************************************************)
(* A model of the polymarket CLI commands:                                 *)
(*   - compute_order_amount (src/src/commands/order.rs), the amount        *)
(*     normalizer, over rust_decimal values;                               *)
(*   - approve::execute (src/src/commands/approve.rs), the three-phase     *)
(*     approval run;                                                       *)
(*   - order::execute (src/src/commands/order.rs), the order path.         *)
(* A Decimal is a record [m |-> mantissa, s |-> scale] standing for        *)
(* m / 10^s.  The inputs stay far inside Decimal's 96-bit mantissa and     *)
(* its maximal scale of 28, where its arithmetic is exact.                 *)
(***************************************************************************)
EXTENDS Integers, Sequences, FiniteSets, TLC

VARIABLES
    cmd,        \* which command this run executes: "amount", "approve", "order",
                \* "resolve", "book", "balance", "search", "status"
    \* ---- compute_order_amount ----
    side,       \* the Side argument
    amount,     \* the Decimal argument
    price,      \* the Option<Decimal> argument
    accepts,    \* whether the SDK's Amount constructor accepts the value it is given
    result,     \* what compute_order_amount returned
    npc,        \* "call" before the call, "returned" after it
    \* ---- approve::execute ----
    dry_run,    \* the dry_run argument
    cfg,        \* what contract_config answers for the chain: [std, neg]
    key,        \* the PRIVATE_KEY environment value: "missing", "invalid", "valid"
    targets,    \* the local `targets`, once built
    apc,        \* the position of execute
    ti,         \* the index of the target the current loop is at
    tk,         \* the index of the token the current inner loop is at
    alog,       \* the calls made so far, oldest first
    lastOk,     \* whether the latest chain call returned Ok
    report,     \* the descriptors a dry run has printed
    setup,      \* the wallet and provider steps taken so far, oldest first
    inflight,   \* the transactions sent whose call has not returned yet
    txs,        \* the transactions handed to send so far, oldest first
    chain,      \* the allowances and operator approvals of the owner on chain
    lastValue,  \* what the latest query printed: the value read, or "error"
    \* ---- order::execute ----
    okey,       \* the PRIVATE_KEY environment value: "missing", "invalid", "valid"
    otoken,     \* the `token_id` argument
    oside,      \* the `side` argument, a string (a sequence of characters)
    oamount,    \* the `amount` argument, a string
    oprice,     \* the `price` argument, an optional string
    oaccepts,   \* whether the SDK's Amount constructor accepts the computed value
    opc,        \* the position of execute
    loc,        \* the locals side_enum, amount_dec, price_dec, order_amount, order
    olog,       \* the steps taken so far with their outcomes, oldest first
    posted,     \* the orders handed to post_order, oldest first
    \* ---- positions::resolve_user_address ----
    ruser,      \* the `user` argument, an optional string
    renv,       \* what env::var("USER_ADDRESS") answers
    rkey,       \* what env::var("PRIVATE_KEY") answers
    rpc,        \* the position of resolve_user_address
    rlog,       \* the sources read and the parsers called so far, oldest first
    rresult,    \* what resolve_user_address returned
    \* ---- orderbook::sort_bids, sort_asks ----
    levels,     \* the levels as the order book arrived, a sequence
    sorted,     \* the levels after the sort
    resorted,   \* the levels after the sort was applied to its own output
    bpc,        \* "call" before the sort, then which sort ran and how often
    \* ---- status::format_balance ----
    raw,        \* the raw_balance argument, its decimal digits
    formatted,  \* what format_balance returned
    fpc,        \* "call" before the call, "returned" after it
    \* ---- search::parse_outcomes ----
    outcomes_str,   \* the outcomes_str argument, a string
    token_ids_str,  \* the token_ids_str argument, a string
    pairs,          \* what parse_outcomes returned
    ppc,            \* "call" before the call, "returned" after it
    \* ---- status::execute ----
    skey,       \* the PRIVATE_KEY environment value: "missing", "invalid", "valid"
    spc,        \* the position of execute
    stk,        \* the index of the token the balance loop is at
    slog,       \* the steps taken so far with their outcomes, oldest first
    sreport     \* the balances printed so far, oldest first

amountVars == <<side, amount, price, accepts, result, npc>>

approveVars ==
    <<dry_run, cfg, key, targets, apc, ti, tk, alog, lastOk, report,
      setup, inflight, txs, chain, lastValue>>

orderVars == <<okey, otoken, oside, oamount, oprice, oaccepts, opc, loc, olog, posted>>

resolveVars == <<ruser, renv, rkey, rpc, rlog, rresult>>

bookVars == <<levels, sorted, resorted, bpc>>

balanceVars == <<raw, formatted, fpc>>

\* The state of the read-only commands.
searchVars == <<outcomes_str, token_ids_str, pairs, ppc>>

statusVars == <<skey, spc, stk, slog, sreport>>

queryVars == <<resolveVars, bookVars, balanceVars, searchVars, statusVars>>

vars == <<cmd, amountVars, approveVars, orderVars, queryVars>>

\* ------------------------------------------------------------------ bounds

MaxAmountMantissa == 40
MaxAmountScale == 3
MaxPriceMantissa == 7
MaxPriceScale == 3

\* ---------------------------------------------------------------- decimals

Abs(x) == IF x < 0 THEN -x ELSE x

Sgn(x) == IF x < 0 THEN -1 ELSE IF x > 0 THEN 1 ELSE 0

RECURSIVE Pow10(_)
Pow10(n) == IF n = 0 THEN 1 ELSE 10 * Pow10(n - 1)

Dec(m, s) == [m |-> m, s |-> s]

None == [some |-> FALSE]

Some(v) == [some |-> TRUE, v |-> v]

Digits == {"0", "1", "2", "3", "4", "5", "6", "7", "8", "9"}

DigitOf(c) ==
    CASE c = "0" -> 0 [] c = "1" -> 1 [] c = "2" -> 2 [] c = "3" -> 3
      [] c = "4" -> 4 [] c = "5" -> 5 [] c = "6" -> 6 [] c = "7" -> 7
      [] c = "8" -> 8 [] c = "9" -> 9

\* Decimal::MAX = 2^96 - 1
DecimalMaxDigits ==
    <<"7", "9", "2", "2", "8", "1", "6", "2", "5", "1", "4", "2", "6", "4", "3", "3",
      "7", "5", "9", "3", "5", "4", "3", "9", "5", "0", "3", "3", "5">>

\* 2^96
TwoPow96Digits ==
    <<"7", "9", "2", "2", "8", "1", "6", "2", "5", "1", "4", "2", "6", "4", "3", "3",
      "7", "5", "9", "3", "5", "4", "3", "9", "5", "0", "3", "3", "6">>

\* a <= b for two integers in digits
DigitsLeq(a, b) ==
    \/ Len(a) < Len(b)
    \/ /\ Len(a) = Len(b)
       /\ \/ a = b
          \/ \E i \in 1..Len(a) :
                /\ DigitOf(a[i]) < DigitOf(b[i])
                /\ \A j \in 1..(i - 1) : a[j] = b[j]

\* A Decimal beyond the integers of the model checker: a whole number with its 96-bit
\* mantissa kept in digits.
WideDec(digits) == [m |-> digits, s |-> 0, wide |-> TRUE]

IsWide(d) == "wide" \in DOMAIN d

DigitChars == <<"0", "1", "2", "3", "4", "5", "6", "7", "8", "9">>

\* The digits of n >= 0, none for 0.
RECURSIVE IntDigits(_)
IntDigits(n) ==
    IF n = 0 THEN <<>> ELSE Append(IntDigits(n \div 10), DigitChars[(n % 10) + 1])

\* The digits of k times the first i digits, plus carry.
RECURSIVE MulDigits(_, _, _, _)
MulDigits(digits, k, i, carry) ==
    IF i = 0 THEN IntDigits(carry)
    ELSE LET v == DigitOf(digits[i]) * k + carry
         IN  Append(MulDigits(digits, k, i - 1, v \div 10), DigitChars[(v % 10) + 1])

\* Decimal's checked_mul for a whole number x in digits and a whole number
\* y >= 1: the product when it fits the 96-bit mantissa, or nothing; for two
\* decimals within the model checker's integers, whose product always fits, the product.
checked_mul(x, y) ==
    IF IsWide(x)
        THEN LET prod == MulDigits(x.m, y.m, Len(x.m), 0)
             IN  IF DigitsLeq(prod, DecimalMaxDigits) THEN Some(WideDec(prod)) ELSE None
        ELSE Some(Dec(x.m * y.m, x.s + y.s))

\* The same number with its trailing zeros dropped: two decimals are the same
\* number exactly when their normal forms are the same record.
RECURSIVE Normalize(_)
Normalize(d) ==
    IF d.m = 0 THEN Dec(0, 0)
    ELSE IF d.s > 0 /\ d.m % 10 = 0 THEN Normalize(Dec(d.m \div 10, d.s - 1))
    ELSE d

DecEq(x, y) == Normalize(x) = Normalize(y)

\* A mutant of the rounding: round half away from zero instead of toward zero.
round_half_up(d, dp) ==
    IF d.s <= dp THEN d
    ELSE Dec(Sgn(d.m) * ((Abs(d.m) + 5 * Pow10(d.s - dp - 1)) \div Pow10(d.s - dp)), dp)

\* amount.round_dp_with_strategy(dp, RoundingStrategy::ToZero): a value with at
\* most dp fractional digits is returned as it is, any other loses the digits
\* past dp, toward zero.
round_dp_to_zero(d, dp) ==
    IF d.s <= dp THEN d
    ELSE Dec(Sgn(d.m) * (Abs(d.m) \div Pow10(d.s - dp)), dp)

\* rounded_amount * price_dec: the mantissas multiply and the scales add.
DecMul(x, y) == Dec(x.m * y.m, x.s + y.s)

\* ------------------------------------------------------ compute_order_amount

Sides == {"Buy", "Sell", "Unknown"}

Ok(kind, v) == [tag |-> "Ok", kind |-> kind, value |-> v]

Err(ctx) == [tag |-> "Err", ctx |-> ctx]

Panic == [tag |-> "Panic"]

NoResult == [tag |-> "None"]

\* Amount::usdc(v).context(..): the SDK's constructor validates v; which values
\* it rejects is the SDK's, so its verdict is an input of the model.  An accepted
\* value is carried as the USDC amount.
AmountUsdc(v, ok) == IF ok THEN Ok("Usdc", v) ELSE Err("Invalid USDC amount")

\* Amount::shares(v).context(..), likewise.
AmountShares(v, ok) == IF ok THEN Ok("Shares", v) ELSE Err("Invalid Share amount")

\* A mutant: the priced buy multiplies the amount as given, not the truncated one.
buy_priced_unrounded(a, p, ok) == AmountUsdc(DecMul(a, p), ok)

\* The arm (Side::Buy, Some(price_dec)).  Decimal's `*` panics with
\* "Multiplication overflowed" when checked_mul has no result.
buy_priced(a, p, ok) ==
    LET usdc_value == checked_mul(round_dp_to_zero(a, 2), p)
    IN  IF usdc_value.some THEN AmountUsdc(usdc_value.v, ok) ELSE Panic

\* The arm (Side::Buy, None).
buy_market(a, ok) == AmountUsdc(round_dp_to_zero(a, 2), ok)

\* A mutant: a sell with a price is sized like a priced buy.
sell_priced(a, p, ok) ==
    IF p.some THEN AmountShares(DecMul(round_dp_to_zero(a, 2), p.v), ok)
    ELSE AmountShares(round_dp_to_zero(a, 2), ok)

\* The arm (Side::Sell, _).
sell_any(a, p, ok) == AmountShares(round_dp_to_zero(a, 2), ok)

compute_order_amount(sd, a, p, ok) ==
    CASE sd = "Buy" /\ p.some -> buy_priced(a, p.v, ok)
      [] sd = "Buy" /\ ~p.some -> buy_market(a, ok)
      [] sd = "Sell" -> sell_any(a, p, ok)
      [] OTHER -> Panic

\* The values the repository's unit tests call the function with, each asserted
\* to give Ok.
TestAmounts == {Dec(1050, 2), Dec(10000, 2), Dec(5000, 2), Dec(10999, 3)}

TestPrices == {Dec(65, 2), Dec(70, 2)}

TestedOk(sd, a, p) ==
    \/ sd = "Buy" /\ a = Dec(1050, 2) /\ p = None
    \/ sd = "Buy" /\ a = Dec(10000, 2) /\ p = Some(Dec(65, 2))
    \/ sd = "Sell" /\ a = Dec(5000, 2) /\ p = None
    \/ sd = "Sell" /\ a = Dec(5000, 2) /\ p = Some(Dec(70, 2))
    \/ sd = "Buy" /\ a = Dec(10999, 3) /\ p = None

Amounts ==
    {Dec(m, s) : m \in -MaxAmountMantissa..MaxAmountMantissa, s \in 0..MaxAmountScale}
        \cup TestAmounts

Prices ==
    {Dec(m, s) : m \in 0..MaxPriceMantissa, s \in 0..MaxPriceScale} \cup TestPrices

PriceOpts == {None} \cup {Some(p) : p \in Prices}

IdleApprove ==
    /\ dry_run = FALSE
    /\ cfg = [std |-> None, neg |-> None]
    /\ key = "missing"
    /\ targets = <<>>
    /\ apc = "idle"
    /\ ti = 0
    /\ tk = 0
    /\ alog = <<>>
    /\ lastOk = TRUE
    /\ report = <<>>
    /\ setup = <<>>
    /\ inflight = {}
    /\ txs = <<>>
    /\ chain = <<>>
    /\ lastValue = "-"

NoLocals ==
    [side_enum |-> "-", amount_dec |-> None, price_dec |-> None,
     order_amount |-> NoResult, order |-> None]

IdleOrder ==
    /\ okey = "missing"
    /\ otoken = "-"
    /\ oside = <<>>
    /\ oamount = <<>>
    /\ oprice = None
    /\ oaccepts = TRUE
    /\ opc = "idle"
    /\ loc = NoLocals
    /\ olog = <<>>
    /\ posted = <<>>

EnvUnset == [kind |-> "NotPresent"]

IdleResolve ==
    /\ ruser = None
    /\ renv = EnvUnset
    /\ rkey = EnvUnset
    /\ rpc = "idle"
    /\ rlog = <<>>
    /\ rresult = NoResult

IdleBook ==
    /\ levels = <<>>
    /\ sorted = <<>>
    /\ resorted = <<>>
    /\ bpc = "idle"

IdleBalance ==
    /\ raw = <<"0">>
    /\ formatted = None
    /\ fpc = "idle"

IdleSearch ==
    /\ outcomes_str = <<>>
    /\ token_ids_str = <<>>
    /\ pairs = None
    /\ ppc = "idle"

IdleStatus ==
    /\ skey = "missing"
    /\ spc = "idle"
    /\ stk = 0
    /\ slog = <<>>
    /\ sreport = <<>>

IdleQuery == IdleResolve /\ IdleBook /\ IdleBalance /\ IdleSearch /\ IdleStatus

InitAmount ==
    /\ cmd = "amount"
    /\ IdleQuery
    /\ IdleApprove
    /\ IdleOrder
    /\ side \in Sides
    /\ amount \in Amounts
    /\ price \in PriceOpts
    /\ accepts \in BOOLEAN
    /\ TestedOk(side, amount, price) => accepts
    /\ result = NoResult
    /\ npc = "call"

ComputeOrderAmount ==
    /\ cmd = "amount"
    /\ npc = "call"
    /\ result' = compute_order_amount(side, amount, price, accepts)
    /\ npc' = "returned"
    /\ UNCHANGED <<cmd, queryVars, side, amount, price, accepts, approveVars, orderVars>>

NextAmount == ComputeOrderAmount

SpecAmount == InitAmount /\ [][NextAmount]_vars

\* --------------------------------------------------------- approve::execute

ZeroAddress == 0

\* What contract_config(chain, false) and contract_config(chain, true) can
\* answer: nothing for a chain the SDK does not know, else the chain's exchange,
\* its conditional-tokens contract and, for the neg-risk set, possibly an adapter.
\* The SDK's configured addresses are deployed contracts, none the zero address.
StdConfigs ==
    {None,
     Some([exchange |-> 1, conditional_tokens |-> 4, neg_risk_adapter |-> None])}

NegConfigs ==
    {None,
     Some([exchange |-> 2, conditional_tokens |-> 4, neg_risk_adapter |-> None]),
     Some([exchange |-> 2, conditional_tokens |-> 4, neg_risk_adapter |-> Some(3)])}

Target(name, addr) == [name |-> name, addr |-> addr]

\* A mutant: the adapter is listed first.
build_targets_adapter_first(c) ==
    IF ~c.std.some THEN Err("Failed to get contract config")
    ELSE IF ~c.neg.some THEN Err("Failed to get neg risk contract config")
    ELSE [tag |-> "Ok",
          targets |->
              (IF c.neg.v.neg_risk_adapter.some
                   THEN <<Target("Neg Risk Adapter", c.neg.v.neg_risk_adapter.v)>>
                   ELSE <<>>)
              \o <<Target("CTF Exchange", c.std.v.exchange),
                   Target("Neg Risk CTF Exchange", c.neg.v.exchange)>>]

build_approval_targets(c) ==
    IF ~c.std.some THEN Err("Failed to get contract config")
    ELSE IF ~c.neg.some THEN Err("Failed to get neg risk contract config")
    ELSE [tag |-> "Ok",
          targets |->
              <<Target("CTF Exchange", c.std.v.exchange),
                Target("Neg Risk CTF Exchange", c.neg.v.exchange)>>
              \o (IF c.neg.v.neg_risk_adapter.some
                      THEN <<Target("Neg Risk Adapter", c.neg.v.neg_risk_adapter.v)>>
                      ELSE <<>>)]

\* The two fungible tokens of the `tokens` array, in its order.
Tokens == <<"USDC.e", "USDC (Native)">>

\* An entry of the call log.  A transaction's outcome, which execute prints as
\* "approved" or "approve failed", is kept with it; the outcome of a read-only
\* query is in lastOk alone.
Ev(op, phase, target, token, outcome) ==
    [op |-> op, phase |-> phase, target |-> target, token |-> token,
     outcome |-> outcome]

Outcome(ok) == IF ok THEN "Success" ELSE "Failed"

IdleAmount ==
    /\ side = "Buy"
    /\ amount = Dec(0, 0)
    /\ price = None
    /\ accepts = TRUE
    /\ result = NoResult
    /\ npc = "idle"

\* What is approved on chain is kept per spender or operator address and
\* contract: the two tokens' allowances and the CTF's approval for all.
ChainKeys == {<<a, c>> : a \in 1..3, c \in {"USDC.e", "USDC (Native)", "CTF"}}

Unapproved(k) == IF k[2] = "CTF" THEN "false" ELSE "0"

\* U256::MAX for a token, true for the CTF: what execute asks for.
Requested(c) == IF c = "CTF" THEN "true" ELSE "MAX"

\* Before the run nothing is approved, or, after an earlier run, everything.
InitialChains ==
    {[k \in ChainKeys |-> Unapproved(k)], [k \in ChainKeys |-> Requested(k[2])]}

InitApprove ==
    /\ cmd = "approve"
    /\ IdleQuery
    /\ IdleAmount
    /\ IdleOrder
    /\ dry_run \in BOOLEAN
    /\ cfg \in [std : StdConfigs, neg : NegConfigs]
    /\ key \in {"missing", "invalid", "valid"}
    /\ targets = <<>>
    /\ apc = "start"
    /\ ti = 0
    /\ tk = 0
    /\ alog = <<>>
    /\ lastOk = TRUE
    /\ report = <<>>
    /\ setup = <<>>
    /\ inflight = {}
    /\ txs = <<>>
    /\ chain \in InitialChains
    /\ lastValue = "-"

\* let targets = build_approval_targets(chain)?;
BuildTargets ==
    /\ cmd = "approve" /\ apc = "start"
    /\ LET r == build_approval_targets(cfg) IN
        IF r.tag = "Ok"
            THEN targets' = r.targets /\ apc' = "built"
            ELSE targets' = targets /\ apc' = "failed"
    /\ UNCHANGED <<cmd, queryVars, amountVars, orderVars, dry_run, cfg, key, setup, inflight, txs, chain, lastValue, ti, tk, alog, lastOk, report>>

\* A mutant: the dry run queries the first target's allowance before reporting.
DryRunQueriesFirst ==
    /\ cmd = "approve" /\ apc = "built" /\ dry_run
    /\ report' = targets
    /\ alog' = Append(alog, [op |-> "allowance", phase |-> "checking",
                             target |-> targets[1].addr, token |-> "USDC.e",
                             outcome |-> "-"])
    /\ apc' = "done"
    /\ UNCHANGED <<cmd, queryVars, amountVars, orderVars, dry_run, cfg, key, setup, inflight, txs, chain, lastValue, targets, ti, tk, lastOk>>

\* A dry run that loads the private key before it reports.
DryRunReportLoadsWallet ==
    /\ cmd = "approve" /\ apc = "built" /\ dry_run
    /\ setup' = <<"env_private_key">>
    /\ IF key = "missing" THEN report' = report /\ apc' = "failed"
       ELSE report' = targets /\ apc' = "done"
    /\ UNCHANGED <<cmd, queryVars, amountVars, orderVars, dry_run, cfg, key, inflight, txs, chain, lastValue, targets, ti, tk, alog, lastOk>>

\* if dry_run { print every target; return Ok(()) }
DryRunReport ==
    /\ cmd = "approve" /\ apc = "built" /\ dry_run
    /\ report' = targets
    /\ apc' = "done"
    /\ UNCHANGED <<cmd, queryVars, amountVars, orderVars, dry_run, cfg, key, setup, inflight, txs, chain, lastValue, targets, ti, tk, alog, lastOk>>

\* env::var(PRIVATE_KEY_VAR)?  and  LocalSigner::from_str(&private_key)?
LoadWallet ==
    /\ cmd = "approve" /\ apc = "built" /\ ~dry_run
    /\ apc' = IF key = "valid" THEN "connect" ELSE "failed"
    /\ setup' = IF key = "missing" THEN <<"env_private_key">>
                ELSE <<"env_private_key", "signer_from_str">>
    /\ UNCHANGED <<cmd, queryVars, amountVars, orderVars, dry_run, cfg, key, inflight, txs, chain, lastValue, targets, ti, tk, alog, lastOk, report>>

\* ProviderBuilder::new().wallet(..).connect(RPC_URL).await?  then
\* contract_config(chain, false).unwrap()
Connect ==
    /\ cmd = "approve" /\ apc = "connect"
    /\ setup' = Append(setup, "connect")
    /\ \E ok \in BOOLEAN :
        /\ alog' = Append(alog, Ev("connect", "setup", ZeroAddress, "-", Outcome(ok)))
        /\ lastOk' = ok
        /\ IF ~ok THEN apc' = "failed" /\ ti' = ti /\ tk' = tk
           ELSE IF ~cfg.std.some THEN apc' = "panic" /\ ti' = ti /\ tk' = tk
           ELSE apc' = "check_allowance" /\ ti' = 1 /\ tk' = 1
    /\ UNCHANGED <<cmd, queryVars, amountVars, orderVars, dry_run, cfg, key, inflight, txs, chain, lastValue, targets, report>>

\* A mutant: a failed allowance query ends the run.
QueryAllowanceAbortsOnFailure(phase, here, next) ==
    /\ cmd = "approve" /\ apc = here
    /\ \E ok \in BOOLEAN :
        /\ alog' = Append(alog, Ev("allowance", phase, targets[ti].addr, Tokens[tk], "-"))
        /\ lastOk' = ok
        /\ lastValue' = IF ok THEN chain[<<targets[ti].addr, Tokens[tk]>>] ELSE "error"
        /\ IF ~ok THEN tk' = tk /\ apc' = "failed"
           ELSE IF tk < Len(Tokens) THEN tk' = tk + 1 /\ apc' = here
           ELSE tk' = tk /\ apc' = next
    /\ UNCHANGED <<cmd, queryVars, amountVars, orderVars, dry_run, cfg, key, setup, inflight, txs, chain, targets, ti, report>>

\* A Verifying that reports what was asked for instead of asking the chain.
QueryAllowanceTrustsWrites(phase, here, next) ==
    /\ cmd = "approve" /\ apc = here
    /\ \E ok \in BOOLEAN :
        /\ alog' = Append(alog, Ev("allowance", phase, targets[ti].addr, Tokens[tk], "-"))
        /\ lastOk' = ok
        /\ lastValue' = IF ~ok THEN "error"
                        ELSE IF phase = "verifying" THEN Requested(Tokens[tk])
                        ELSE chain[<<targets[ti].addr, Tokens[tk]>>]
    /\ IF tk < Len(Tokens) THEN tk' = tk + 1 /\ apc' = here
       ELSE tk' = tk /\ apc' = next
    /\ UNCHANGED <<cmd, queryVars, amountVars, orderVars, dry_run, cfg, key, setup, inflight, txs, chain, targets, ti, report>>

\* A query of one of the two read loops, Checking (phase "checking") or
\* Verifying ("verifying"): check_allowance(token_contract, owner, *target)
QueryAllowance(phase, here, next) ==
    /\ cmd = "approve" /\ apc = here
    /\ \E ok \in BOOLEAN :
        /\ alog' = Append(alog, Ev("allowance", phase, targets[ti].addr, Tokens[tk], "-"))
        /\ lastOk' = ok
        /\ lastValue' = IF ok THEN chain[<<targets[ti].addr, Tokens[tk]>>] ELSE "error"
    /\ IF tk < Len(Tokens) THEN tk' = tk + 1 /\ apc' = here
       ELSE tk' = tk /\ apc' = next
    /\ UNCHANGED <<cmd, queryVars, amountVars, orderVars, dry_run, cfg, key, setup, inflight, txs, chain, targets, ti, report>>

\* A mutant: the read loop stops one target early.
QueryApprovalForAllStopsEarly(phase, here, again, after) ==
    /\ cmd = "approve" /\ apc = here
    /\ \E ok \in BOOLEAN :
        /\ alog' = Append(alog, Ev("isApprovedForAll", phase, targets[ti].addr, "CTF", "-"))
        /\ lastOk' = ok
        /\ lastValue' = IF ok THEN chain[<<targets[ti].addr, "CTF">>] ELSE "error"
    /\ IF ti < Len(targets) - 1 THEN ti' = ti + 1 /\ tk' = 1 /\ apc' = again
       ELSE ti' = 1 /\ tk' = 1 /\ apc' = after
    /\ UNCHANGED <<cmd, queryVars, amountVars, orderVars, dry_run, cfg, key, setup, inflight, txs, chain, targets, report>>

\* check_approval_for_all(&ctf, owner, *target), which ends the target's iteration
QueryApprovalForAll(phase, here, again, after) ==
    /\ cmd = "approve" /\ apc = here
    /\ \E ok \in BOOLEAN :
        /\ alog' = Append(alog, Ev("isApprovedForAll", phase, targets[ti].addr, "CTF", "-"))
        /\ lastOk' = ok
        /\ lastValue' = IF ok THEN chain[<<targets[ti].addr, "CTF">>] ELSE "error"
    /\ IF ti < Len(targets) THEN ti' = ti + 1 /\ tk' = 1 /\ apc' = again
       ELSE ti' = 1 /\ tk' = 1 /\ apc' = after
    /\ UNCHANGED <<cmd, queryVars, amountVars, orderVars, dry_run, cfg, key, setup, inflight, txs, chain, targets, report>>

CheckAllowance == QueryAllowance("checking", "check_allowance", "check_ctf")

CheckCtf == QueryApprovalForAll("checking", "check_ctf", "check_allowance", "approve_wait")

Sleep(here, next) ==
    /\ cmd = "approve" /\ apc = here
    /\ alog' = Append(alog, Ev("sleep", "approving", targets[ti].addr, "-", "-"))
    /\ apc' = next
    /\ UNCHANGED <<cmd, queryVars, amountVars, orderVars, dry_run, cfg, key, setup, inflight, txs, chain, lastValue, targets, ti, tk, lastOk, report>>

\* The sleep that opens a target's iteration of the Approving loop.
ApproveWait == Sleep("approve_wait", "approve_token")

\* The transaction of approve_token(token_contract, *target, U256::MAX).
ApproveTx ==
    [op |-> "approve", target |-> targets[ti].addr, token |-> Tokens[tk],
     value |-> Requested(Tokens[tk])]

\* The transaction of set_approval_for_all(&ctf, *target, true).
CtfTx ==
    [op |-> "setApprovalForAll", target |-> targets[ti].addr, token |-> "CTF",
     value |-> Requested("CTF")]

\* A send that is tried again when the node refuses the transaction.
SubmitWithRetry(here, watching, tx) ==
    /\ cmd = "approve" /\ apc = here
    /\ \E sent \in BOOLEAN :
        /\ txs' = IF sent THEN Append(txs, tx) ELSE txs \o <<tx, tx>>
        /\ inflight' = inflight \cup {tx}
    /\ apc' = watching
    /\ UNCHANGED <<cmd, queryVars, amountVars, orderVars, dry_run, cfg, key, setup, chain,
                   lastValue, targets, ti, tk, alog, lastOk, report>>

\* .send().await: the transaction is handed to the node, which takes it or
\* answers with an error; either way the call goes on to its `?`.
Submit(here, watching, tx) ==
    /\ cmd = "approve" /\ apc = here
    /\ txs' = Append(txs, tx)
    /\ \E sent \in BOOLEAN : inflight' = IF sent THEN inflight \cup {tx} ELSE inflight
    /\ apc' = watching
    /\ UNCHANGED <<cmd, queryVars, amountVars, orderVars, dry_run, cfg, key, setup, chain,
                   lastValue, targets, ti, tk, alog, lastOk, report>>

\* .watch().await, and the return of the call: Ok only for a transaction that
\* was sent and is included, which then holds on chain; a transaction that
\* failed is taken to have changed nothing.
Settle(tx, ok) ==
    /\ ok => tx \in inflight
    /\ inflight' = inflight \ {tx}
    /\ chain' = IF ok THEN [chain EXCEPT ![<<tx.target, tx.token>>] = tx.value] ELSE chain
    /\ lastOk' = ok

\* usdc.approve(spender, amount).send().await?
ApproveSubmit == Submit("approve_token", "approve_watch", ApproveTx)

\* ctf.setApprovalForAll(operator, approved).send().await?
SetApprovalSubmit == Submit("set_approval", "set_watch", CtfTx)

\* A mutant: a failed approve ends the Approving phase.
ApproveTokenAbortsOnFailure ==
    /\ cmd = "approve" /\ apc = "approve_watch"
    /\ \E ok \in BOOLEAN :
        /\ alog' = Append(alog, Ev("approve", "approving", targets[ti].addr, Tokens[tk], Outcome(ok)))
        /\ Settle(ApproveTx, ok)
        /\ IF ok THEN apc' = "token_wait" /\ ti' = ti /\ tk' = tk
           ELSE apc' = "verify_allowance" /\ ti' = 1 /\ tk' = 1
    /\ UNCHANGED <<cmd, queryVars, amountVars, orderVars, dry_run, cfg, key, setup, txs, lastValue, targets, report>>

\* A mutant: the wait after an approve is skipped when the approve failed.
ApproveTokenSkipsWaitOnFailure ==
    /\ cmd = "approve" /\ apc = "approve_watch"
    /\ \E ok \in BOOLEAN :
        /\ alog' = Append(alog, Ev("approve", "approving", targets[ti].addr, Tokens[tk], Outcome(ok)))
        /\ Settle(ApproveTx, ok)
        /\ IF ok THEN apc' = "token_wait" /\ tk' = tk
           ELSE IF tk < Len(Tokens) THEN apc' = "approve_token" /\ tk' = tk + 1
           ELSE apc' = "ctf_wait" /\ tk' = tk
    /\ UNCHANGED <<cmd, queryVars, amountVars, orderVars, dry_run, cfg, key, setup, txs, lastValue, targets, ti, report>>

\* A mutant: the approving loop walks the target list from its end.
ApproveTokenReversed ==
    /\ cmd = "approve" /\ apc = "approve_watch"
    /\ \E ok \in BOOLEAN :
        /\ alog' = Append(alog, Ev("approve", "approving",
                                   targets[Len(targets) + 1 - ti].addr, Tokens[tk], Outcome(ok)))
        /\ Settle(ApproveTx, ok)
    /\ apc' = "token_wait"
    /\ UNCHANGED <<cmd, queryVars, amountVars, orderVars, dry_run, cfg, key, setup, txs, lastValue, targets, ti, tk, report>>

\* approve_token without the watch: it returns once the transaction is sent.
ApproveTokenReturnsUnwatched ==
    /\ cmd = "approve" /\ apc = "approve_watch"
    /\ \E ok \in BOOLEAN :
        /\ ok => ApproveTx \in inflight
        /\ alog' = Append(alog, Ev("approve", "approving", targets[ti].addr, Tokens[tk], Outcome(ok)))
        /\ lastOk' = ok
    /\ apc' = "token_wait"
    /\ UNCHANGED <<cmd, queryVars, amountVars, orderVars, dry_run, cfg, key, setup, inflight, txs, chain, lastValue, targets, ti, tk, report>>

\* approve_token(token_contract, *target, U256::MAX): send, then watch
ApproveToken ==
    /\ cmd = "approve" /\ apc = "approve_watch"
    /\ \E ok \in BOOLEAN :
        /\ alog' = Append(alog, Ev("approve", "approving", targets[ti].addr, Tokens[tk], Outcome(ok)))
        /\ Settle(ApproveTx, ok)
    /\ apc' = "token_wait"
    /\ UNCHANGED <<cmd, queryVars, amountVars, orderVars, dry_run, cfg, key, setup, txs, lastValue, targets, ti, tk, report>>

\* The sleep that ends an iteration of the token loop.
TokenWait ==
    /\ cmd = "approve" /\ apc = "token_wait"
    /\ alog' = Append(alog, Ev("sleep", "approving", targets[ti].addr, "-", "-"))
    /\ IF tk < Len(Tokens) THEN tk' = tk + 1 /\ apc' = "approve_token"
       ELSE tk' = tk /\ apc' = "ctf_wait"
    /\ UNCHANGED <<cmd, queryVars, amountVars, orderVars, dry_run, cfg, key, setup, inflight, txs, chain, lastValue, targets, ti, lastOk, report>>

\* The sleep between the token loop and set_approval_for_all.
CtfWait == Sleep("ctf_wait", "set_approval")

\* set_approval_for_all(..).await? : a failed transaction ends the run.
SetApprovalForAllAbortsOnFailure ==
    /\ cmd = "approve" /\ apc = "set_watch"
    /\ \E ok \in BOOLEAN :
        /\ alog' = Append(alog, Ev("setApprovalForAll", "approving", targets[ti].addr, "CTF", Outcome(ok)))
        /\ Settle(CtfTx, ok)
        /\ IF ~ok THEN ti' = ti /\ tk' = tk /\ apc' = "failed"
           ELSE IF ti < Len(targets) THEN ti' = ti + 1 /\ tk' = 1 /\ apc' = "approve_wait"
           ELSE ti' = 1 /\ tk' = 1 /\ apc' = "verify_allowance"
    /\ UNCHANGED <<cmd, queryVars, amountVars, orderVars, dry_run, cfg, key, setup, txs, lastValue, targets, report>>

\* set_approval_for_all(&ctf, *target, true), which ends the target's iteration
SetApprovalForAll ==
    /\ cmd = "approve" /\ apc = "set_watch"
    /\ \E ok \in BOOLEAN :
        /\ alog' = Append(alog, Ev("setApprovalForAll", "approving", targets[ti].addr, "CTF", Outcome(ok)))
        /\ Settle(CtfTx, ok)
    /\ IF ti < Len(targets) THEN ti' = ti + 1 /\ tk' = 1 /\ apc' = "approve_wait"
       ELSE ti' = 1 /\ tk' = 1 /\ apc' = "verify_allowance"
    /\ UNCHANGED <<cmd, queryVars, amountVars, orderVars, dry_run, cfg, key, setup, txs, lastValue, targets, report>>

VerifyAllowance == QueryAllowance("verifying", "verify_allowance", "verify_ctf")

VerifyCtf == QueryApprovalForAll("verifying", "verify_ctf", "verify_allowance", "done")

NextApprove ==
    \/ BuildTargets
    \/ DryRunReport
    \/ LoadWallet
    \/ Connect
    \/ CheckAllowance
    \/ CheckCtf
    \/ ApproveWait
    \/ ApproveSubmit
    \/ ApproveToken
    \/ TokenWait
    \/ CtfWait
    \/ SetApprovalSubmit
    \/ SetApprovalForAll
    \/ VerifyAllowance
    \/ VerifyCtf

SpecApprove == InitApprove /\ [][NextApprove]_vars

\* execute is one async function: every await of it is a chain call or a sleep,
\* and each of them returns, so a step that can be taken is taken.
SpecApproveLive == InitApprove /\ [][NextApprove]_vars /\ WF_vars(NextApprove)

\* ----------------------------------------------------------- order::execute

UpperLetters ==
    <<"A", "B", "C", "D", "E", "F", "G", "H", "I", "J", "K", "L", "M",
      "N", "O", "P", "Q", "R", "S", "T", "U", "V", "W", "X", "Y", "Z">>

LowerLetters ==
    <<"a", "b", "c", "d", "e", "f", "g", "h", "i", "j", "k", "l", "m",
      "n", "o", "p", "q", "r", "s", "t", "u", "v", "w", "x", "y", "z">>

\* char::to_lowercase, on ASCII: a capital letter gives its small letter, any
\* other character itself.
LowerChar(c) ==
    IF \E i \in 1..Len(UpperLetters) : UpperLetters[i] = c
        THEN LowerLetters[CHOOSE i \in 1..Len(UpperLetters) : UpperLetters[i] = c]
        ELSE c

\* side.to_lowercase()
to_lowercase(str) == [i \in 1..Len(str) |-> LowerChar(str[i])]

\* A mutant: the side is matched as typed, without lowercasing.
parse_side_case_sensitive(str) ==
    CASE str = <<"b", "u", "y">> -> [tag |-> "Ok", side |-> "Buy"]
      [] str = <<"s", "e", "l", "l">> -> [tag |-> "Ok", side |-> "Sell"]
      [] OTHER -> Err("Invalid side: must be 'buy' or 'sell'")

parse_side(str) ==
    CASE to_lowercase(str) = <<"b", "u", "y">> -> [tag |-> "Ok", side |-> "Buy"]
      [] to_lowercase(str) = <<"s", "e", "l", "l">> -> [tag |-> "Ok", side |-> "Sell"]
      [] OTHER -> Err("Invalid side: must be 'buy' or 'sell'")

\* The digits and the point of a decimal literal from position i on: the value
\* read so far is m / 10^s, n digits have been read, dot tells whether the
\* point has been passed.
RECURSIVE ParseDigits(_, _, _, _, _, _)
ParseDigits(str, i, m, s, n, dot) ==
    IF i > Len(str) THEN (IF n > 0 THEN Some(Dec(m, s)) ELSE None)
    ELSE IF str[i] = "." THEN
        (IF dot THEN None ELSE ParseDigits(str, i + 1, m, s, n, TRUE))
    ELSE IF str[i] \in Digits THEN
        ParseDigits(str, i + 1, 10 * m + DigitOf(str[i]),
                    IF dot THEN s + 1 ELSE s, n + 1, dot)
    ELSE None

\* A whole number of ten digits or more, without sign or leading zero.
IsWideLiteral(str) ==
    /\ Len(str) >= 10
    /\ \A i \in 1..Len(str) : str[i] \in Digits
    /\ str[1] # "0"

\* Decimal::from_str: an optional sign, then digits with at most one point;
\* the fractional digits typed are the scale.  A whole number that does not fit
\* the 96-bit mantissa is an error.
decimal_from_str(str) ==
    IF Len(str) = 0 THEN None
    ELSE IF IsWideLiteral(str) THEN
        (IF DigitsLeq(str, DecimalMaxDigits) THEN Some(WideDec(str)) ELSE None)
    ELSE IF str[1] = "-" THEN
        LET r == ParseDigits(str, 2, 0, 0, 0, FALSE) IN
            IF r.some THEN Some(Dec(-r.v.m, r.v.s)) ELSE None
    ELSE IF str[1] = "+" THEN ParseDigits(str, 2, 0, 0, 0, FALSE)
    ELSE ParseDigits(str, 1, 0, 0, 0, FALSE)

\* The strings of the unit tests of parse_side, and some near misses.
SideStrings ==
    {<<"b", "u", "y">>, <<"B", "U", "Y">>, <<"B", "u", "y">>,
     <<"s", "e", "l", "l">>, <<"S", "E", "L", "L">>, <<"S", "e", "l", "l">>,
     <<"h", "o", "l", "d">>, <<>>, <<"b">>,
     <<"b", "U", "y">>, <<"s", "e", "l">>, <<"b", "u", "y", "s">>,
     <<"b", "u", "y", " ">>, <<"S", "E", "L", "1">>}

TokenIds == {"tokenA", "tokenB"}

AmountStrings ==
    {<<"1", "0", ".", "9", "9", "9">>, <<"1", "0", "0", ".", "0", "0">>,
     <<"-", "5">>, <<"a", "b", "c">>, <<>>, <<"1", ".", "2", ".", "3">>}

PriceStrings == {<<"0", ".", "6", "5">>, <<"0", ".", "7">>, <<"x">>}

\* Ten thousand million
TenPow10Digits == <<"1", "0", "0", "0", "0", "0", "0", "0", "0", "0", "0">>

\* Amounts beyond the model checker's integers: 10^10, Decimal::MAX, and 2^96, which
\* Decimal::from_str rejects.
WideAmountStrings == {TenPow10Digits, DecimalMaxDigits, TwoPow96Digits}

\* Whole prices
WholePriceStrings == {<<"1">>, <<"2">>}

Step(op, ok) == [op |-> op, outcome |-> Outcome(ok)]

InitOrder ==
    /\ cmd = "order"
    /\ IdleQuery
    /\ IdleAmount
    /\ IdleApprove
    /\ okey \in {"missing", "invalid", "valid"}
    /\ otoken \in TokenIds
    /\ oside \in SideStrings
    /\ oamount \in AmountStrings
    /\ oprice \in {None} \cup {Some(s) : s \in PriceStrings}
    /\ oaccepts \in BOOLEAN
    /\ opc = "start"
    /\ loc = NoLocals
    /\ olog = <<>>
    /\ posted = <<>>

\* An order for a very large amount, at no price or at a whole price.
InitOrderWide ==
    /\ cmd = "order"
    /\ IdleQuery
    /\ IdleAmount
    /\ IdleApprove
    /\ okey \in {"missing", "invalid", "valid"}
    /\ otoken \in TokenIds
    /\ oside \in SideStrings
    /\ oamount \in WideAmountStrings
    /\ oprice \in {None} \cup {Some(s) : s \in WholePriceStrings}
    /\ oaccepts \in BOOLEAN
    /\ opc = "start"
    /\ loc = NoLocals
    /\ olog = <<>>
    /\ posted = <<>>

\* A step of execute that `?` guards: it is logged with its outcome, and a
\* failure returns the error at once.
Advance(here, op, ok, next) ==
    /\ cmd = "order" /\ opc = here
    /\ olog' = Append(olog, Step(op, ok))
    /\ opc' = IF ok THEN next ELSE "failed"
    /\ UNCHANGED <<cmd, queryVars, amountVars, approveVars, okey, otoken, oside, oamount, oprice, oaccepts>>

\* env::var(PRIVATE_KEY_VAR).context(..)?
OReadKey ==
    /\ Advance("start", "env_private_key", okey # "missing", "signer")
    /\ UNCHANGED <<loc, posted>>

\* LocalSigner::from_str(&private_key)?  and the two derived addresses
OSigner ==
    /\ Advance("signer", "signer_from_str", okey = "valid", "authenticate")
    /\ UNCHANGED <<loc, posted>>

\* ClobClient::new(..)?.authentication_builder(..)...authenticate().await?
OAuthenticate ==
    /\ \E ok \in BOOLEAN : Advance("authenticate", "authenticate", ok, "ok")
    /\ UNCHANGED <<loc, posted>>

\* client.ok().await?
OOk ==
    /\ \E ok \in BOOLEAN : Advance("ok", "ok", ok, "api_keys")
    /\ UNCHANGED <<loc, posted>>

\* client.api_keys().await?
OApiKeys ==
    /\ \E ok \in BOOLEAN : Advance("api_keys", "api_keys", ok, "parse_side")
    /\ UNCHANGED <<loc, posted>>

\* let side_enum = parse_side(&side)?;
OParseSide ==
    /\ LET r == parse_side(oside) IN
        /\ Advance("parse_side", "parse_side", r.tag = "Ok", "parse_amount")
        /\ loc' = IF r.tag = "Ok" THEN [loc EXCEPT !.side_enum = r.side] ELSE loc
    /\ UNCHANGED posted

\* let amount_dec = Decimal::from_str(&amount).context("Invalid amount")?;
OParseAmount ==
    /\ LET r == decimal_from_str(oamount) IN
        /\ Advance("parse_amount", "parse_amount", r.some,
                   IF oprice.some THEN "parse_price" ELSE "compute")
        /\ loc' = [loc EXCEPT !.amount_dec = r]
    /\ UNCHANGED posted

\* if let Some(p) = price { let price_dec = Decimal::from_str(&p).context(..)?;
OParsePrice ==
    /\ LET r == decimal_from_str(oprice.v) IN
        /\ Advance("parse_price", "parse_price", r.some, "compute")
        /\ loc' = [loc EXCEPT !.price_dec = r]
    /\ UNCHANGED posted

\* let order_amount = compute_order_amount(side_enum, amount_dec, ..)?;  in
\* either branch of the if
OCompute ==
    /\ cmd = "order" /\ opc = "compute"
    /\ LET r == compute_order_amount(loc.side_enum, loc.amount_dec.v, loc.price_dec,
                                     oaccepts) IN
        IF r.tag = "Panic"
            THEN /\ olog' = Append(olog, [op |-> "compute_order_amount", outcome |-> "Panic"])
                 /\ opc' = "panic"
                 /\ loc' = loc
                 /\ UNCHANGED <<cmd, queryVars, amountVars, approveVars, okey, otoken, oside, oamount, oprice, oaccepts>>
            ELSE /\ Advance("compute", "compute_order_amount", r.tag = "Ok", "build")
                 /\ loc' = [loc EXCEPT !.order_amount = r]
    /\ UNCHANGED posted

\* A mutant: a supplied price makes the order a resting limit order.
priced_branch_limit_order(tok, l) ==
    [token_id |-> tok, amount |-> l.order_amount, side |-> l.side_enum,
     order_type |-> "GTC", signed |-> FALSE]

\* The builder chain of the branch `if let Some(p) = price`:
\* client.market_order().token_id(..).amount(..).side(..).order_type(FOK)
priced_branch_order(tok, l) ==
    [token_id |-> tok, amount |-> l.order_amount, side |-> l.side_enum,
     order_type |-> "FOK", signed |-> FALSE]

\* The builder chain of the else branch, written out a second time in the code.
unpriced_branch_order(tok, l) ==
    [token_id |-> tok, amount |-> l.order_amount, side |-> l.side_enum,
     order_type |-> "FOK", signed |-> FALSE]

\* .build().await.context("Failed to build market order")?  in the branch taken
OBuild ==
    /\ \E ok \in BOOLEAN :
        /\ Advance("build", "build", ok, "sign")
        /\ loc' = IF ~ok THEN loc
                  ELSE IF oprice.some
                      THEN [loc EXCEPT !.order = Some(priced_branch_order(otoken, loc))]
                      ELSE [loc EXCEPT !.order = Some(unpriced_branch_order(otoken, loc))]
    /\ UNCHANGED posted

\* A mutant: a signing failure is not propagated and the order goes on unsigned.
OSignIgnoresFailure ==
    /\ cmd = "order" /\ opc = "sign"
    /\ \E ok \in BOOLEAN :
        /\ olog' = Append(olog, Step("sign", ok))
        /\ loc' = IF ok THEN [loc EXCEPT !.order = Some([loc.order.v EXCEPT !.signed = TRUE])]
                  ELSE loc
    /\ opc' = "post"
    /\ UNCHANGED <<cmd, queryVars, amountVars, approveVars, okey, otoken, oside, oamount, oprice, oaccepts, posted>>

\* client.sign(&signer, order).await.context("Failed to sign order")?
OSign ==
    /\ \E ok \in BOOLEAN :
        /\ Advance("sign", "sign", ok, "post")
        /\ loc' = IF ok THEN [loc EXCEPT !.order = Some([loc.order.v EXCEPT !.signed = TRUE])]
                  ELSE loc
    /\ UNCHANGED posted

\* client.post_order(signed_order).await.context("Failed to post order")?
OPost ==
    /\ \E ok \in BOOLEAN : Advance("post", "post_order", ok, "done")
    /\ posted' = Append(posted, loc.order.v)
    /\ UNCHANGED loc

NextOrder ==
    \/ OReadKey
    \/ OSigner
    \/ OAuthenticate
    \/ OOk
    \/ OApiKeys
    \/ OParseSide
    \/ OParseAmount
    \/ OParsePrice
    \/ OCompute
    \/ OBuild
    \/ OSign
    \/ OPost

SpecOrder == InitOrder /\ [][NextOrder]_vars

\* The order command and the approve command, the order command also with
\* very large amounts.
InitOrderApprove == InitOrder \/ InitOrderWide \/ InitApprove

NextOrderApprove ==
    \/ NextOrder
    \/ NextApprove

SpecOrderApprove == InitOrderApprove /\ [][NextOrderApprove]_vars

\* ------------------------------------- positions::resolve_user_address

HexChars ==
    Digits \cup {"a", "b", "c", "d", "e", "f", "A", "B", "C", "D", "E", "F"}

\* The hex digits of a 20-byte address.
AddressHexLen == 40

\* Address::from_str: an optional "0x", then exactly 40 hex digits in either
\* case; the value is the 20 bytes, written here as the digits in lower case.
address_from_str(str) ==
    LET body == IF Len(str) >= 2 /\ str[1] = "0" /\ str[2] = "x"
                    THEN SubSeq(str, 3, Len(str))
                    ELSE str
    IN IF Len(body) = AddressHexLen /\ \A i \in 1..Len(body) : body[i] \in HexChars
           THEN Some(to_lowercase(body))
           ELSE None

AddrOk(a) == [tag |-> "Ok", address |-> a]

\* .context(ctx) on the parser's result
WithContext(parsed, ctx) == IF parsed.some THEN AddrOk(parsed.v) ELSE Err(ctx)

\* The address of the unit test test_resolve_user_address_explicit_valid.
TestAddress ==
    <<"0", "x", "7", "6", "5", "6", "4", "A", "8", "7", "5", "5", "2", "2",
      "c", "7", "8", "2", "6", "3", "B", "7", "c", "0", "c", "5", "1", "B",
      "3", "7", "6", "0", "A", "1", "7", "7", "6", "8", "7", "7", "a", "f">>

\* A second address, written without the prefix.
OtherAddress ==
    <<"0", "0", "0", "0", "0", "0", "0", "0", "2", "1", "9", "a", "b", "5",
      "4", "0", "3", "5", "6", "c", "B", "B", "8", "3", "9", "C", "b", "e",
      "0", "5", "3", "0", "3", "d", "7", "7", "0", "5", "F", "a">>

\* The string of the unit test test_resolve_user_address_explicit_invalid.
NotAnAddress ==
    <<"n", "o", "t", "_", "a", "n", "_", "a", "d", "d", "r", "e", "s", "s">>

\* An address one digit short.
ShortAddress ==
    <<"0", "x", "7", "6", "5", "6", "4", "A", "8", "7", "5", "5", "2", "2",
      "c", "7", "8", "2", "6", "3", "B", "7", "c", "0", "c", "5", "1", "B",
      "3", "7", "6", "0", "A", "1", "7", "7", "6", "8", "7", "7", "a">>

\* signer.address() of the valid private key.
KeyAddress ==
    <<"f", "3", "9", "f", "d", "6", "e", "5", "1", "a", "a", "d", "8", "8",
      "f", "6", "f", "4", "c", "e", "6", "a", "b", "8", "8", "2", "7", "2",
      "7", "9", "c", "f", "f", "f", "b", "9", "2", "2", "6", "6">>

UserStrings == {TestAddress, OtherAddress, NotAnAddress, ShortAddress}

\* env::var answers Ok(value), Err(NotPresent) or, for a value that is not
\* valid Unicode, Err(NotUnicode).
EnvOk(v) == [kind |-> "Ok", value |-> v]

EnvNotUnicode == [kind |-> "NotUnicode"]

UserAddressEnvs ==
    {EnvUnset, EnvNotUnicode} \cup {EnvOk(s) : s \in {OtherAddress, TestAddress, NotAnAddress, <<>>}}

PrivateKeyEnvs == {EnvUnset, EnvNotUnicode, EnvOk("invalid"), EnvOk("valid")}

IdleBase == IdleAmount /\ IdleApprove /\ IdleOrder

InitResolve ==
    /\ cmd = "resolve"
    /\ IdleBase
    /\ IdleSearch
    /\ IdleStatus
    /\ IdleBook
    /\ IdleBalance
    /\ ruser \in {None} \cup {Some(s) : s \in UserStrings}
    /\ renv \in UserAddressEnvs
    /\ rkey \in PrivateKeyEnvs
    /\ rpc = "start"
    /\ rlog = <<>>
    /\ rresult = NoResult

\* A mutant: an explicit address gives way to a readable USER_ADDRESS.
RExplicitYieldsToEnv ==
    /\ cmd = "resolve" /\ rpc = "start"
    /\ ruser.some
    /\ rlog' = Append(rlog, "address_from_str(user)")
    /\ rresult' = IF renv.kind = "Ok"
                     THEN WithContext(address_from_str(renv.value),
                                      "Invalid address format in USER_ADDRESS")
                     ELSE WithContext(address_from_str(ruser.v), "Invalid address format")
    /\ rpc' = "returned"
    /\ UNCHANGED <<cmd, amountVars, approveVars, orderVars, searchVars, statusVars, bookVars, balanceVars,
                   ruser, renv, rkey>>

\* if let Some(u) = user { return Address::from_str(&u).context(..); }
RExplicit ==
    /\ cmd = "resolve" /\ rpc = "start"
    /\ ruser.some
    /\ rlog' = Append(rlog, "address_from_str(user)")
    /\ rresult' = WithContext(address_from_str(ruser.v), "Invalid address format")
    /\ rpc' = "returned"
    /\ UNCHANGED <<cmd, amountVars, approveVars, orderVars, searchVars, statusVars, bookVars, balanceVars,
                   ruser, renv, rkey>>

\* if let Ok(u) = env::var("USER_ADDRESS") { return Address::from_str(&u).context(..); }
\* Either error of env::var leaves the if.
RUserAddress ==
    /\ cmd = "resolve" /\ rpc = "start"
    /\ ~ruser.some
    /\ IF renv.kind = "Ok"
         THEN /\ rlog' = rlog \o <<"env(USER_ADDRESS)", "address_from_str(USER_ADDRESS)">>
              /\ rresult' = WithContext(address_from_str(renv.value),
                                        "Invalid address format in USER_ADDRESS")
              /\ rpc' = "returned"
         ELSE /\ rlog' = Append(rlog, "env(USER_ADDRESS)")
              /\ rresult' = rresult
              /\ rpc' = "private_key"
    /\ UNCHANGED <<cmd, amountVars, approveVars, orderVars, searchVars, statusVars, bookVars, balanceVars,
                   ruser, renv, rkey>>

\* A mutant: without a private key the zero address is returned.
RPrivateKeyDefaultsToZero ==
    /\ cmd = "resolve" /\ rpc = "private_key"
    /\ rlog' = Append(rlog, "env(PRIVATE_KEY)")
    /\ IF rkey.kind = "Ok"
         THEN rresult' = rresult /\ rpc' = "signer"
         ELSE /\ rresult' = AddrOk([i \in 1..AddressHexLen |-> "0"])
              /\ rpc' = "returned"
    /\ UNCHANGED <<cmd, amountVars, approveVars, orderVars, searchVars, statusVars, bookVars, balanceVars,
                   ruser, renv, rkey>>

\* env::var(PRIVATE_KEY_VAR).context("PRIVATE_KEY or USER_ADDRESS env var not set")?
RPrivateKey ==
    /\ cmd = "resolve" /\ rpc = "private_key"
    /\ rlog' = Append(rlog, "env(PRIVATE_KEY)")
    /\ IF rkey.kind = "Ok"
         THEN rresult' = rresult /\ rpc' = "signer"
         ELSE /\ rresult' = Err("PRIVATE_KEY or USER_ADDRESS env var not set")
              /\ rpc' = "returned"
    /\ UNCHANGED <<cmd, amountVars, approveVars, orderVars, searchVars, statusVars, bookVars, balanceVars,
                   ruser, renv, rkey>>

\* LocalSigner::from_str(&private_key).context("Invalid private key")?;
\* Ok(signer.address())
RSigner ==
    /\ cmd = "resolve" /\ rpc = "signer"
    /\ rlog' = Append(rlog, "signer_from_str")
    /\ rresult' = IF rkey.value = "valid" THEN AddrOk(KeyAddress)
                  ELSE Err("Invalid private key")
    /\ rpc' = "returned"
    /\ UNCHANGED <<cmd, amountVars, approveVars, orderVars, searchVars, statusVars, bookVars, balanceVars,
                   ruser, renv, rkey>>

NextResolve ==
    \/ RExplicit
    \/ RUserAddress
    \/ RPrivateKey
    \/ RSigner

SpecResolve == InitResolve /\ [][NextResolve]_vars

\* ---------------------------------------- orderbook::sort_bids, sort_asks

\* The longest list of levels.
MaxLevels == 3

\* Ord::cmp on Decimal: both are brought to the larger scale and the mantissas
\* compared, so 0.5 and 0.50 are Equal.
DecCmp(x, y) ==
    LET sc == IF x.s >= y.s THEN x.s ELSE y.s
        a == x.m * Pow10(sc - x.s)
        b == y.m * Pow10(sc - y.s)
    IN IF a < b THEN "Less" ELSE IF a > b THEN "Greater" ELSE "Equal"

\* The closure of sort_bids, |a, b| b.price.cmp(&a.price), for order "desc",
\* and that of sort_asks, |a, b| a.price.cmp(&b.price), for order "asc".
compare(a, b, order) ==
    IF order = "desc" THEN DecCmp(b.price, a.price) ELSE DecCmp(a.price, b.price)

\* A mutant: a level is put in front of the levels it equals.
insert_before_equals(x, seq, order) ==
    LET k == Cardinality({i \in 1..Len(seq) : compare(seq[i], x, order) = "Less"})
    IN SubSeq(seq, 1, k) \o <<x>> \o SubSeq(seq, k + 1, Len(seq))

\* One step of the stable sort: x, which came later than every element of the
\* sorted seq, goes behind the elements that are not Greater than it.
insert_sorted(x, seq, order) ==
    LET k == Cardinality({i \in 1..Len(seq) : compare(seq[i], x, order) # "Greater"})
    IN SubSeq(seq, 1, k) \o <<x>> \o SubSeq(seq, k + 1, Len(seq))

\* slice::sort_by, a stable sort, with the closure of the given order: the
\* first n elements of seq, sorted.
RECURSIVE sort_by(_, _, _)
sort_by(seq, n, order) ==
    IF n = 0 THEN <<>>
    ELSE insert_sorted(seq[n], sort_by(seq, n - 1, order), order)

\* A mutant: the bids come out lowest price first.
sort_bids_ascending(bids) == sort_by(bids, Len(bids), "asc")

\* bids.sort_by(|a, b| b.price.cmp(&a.price)); bids
sort_bids(bids) == sort_by(bids, Len(bids), "desc")

\* asks.sort_by(|a, b| a.price.cmp(&b.price)); asks
sort_asks(asks) == sort_by(asks, Len(asks), "asc")

\* The prices of the unit tests, and 0.5, which equals 0.50.
BookPrices == {Dec(30, 2), Dec(40, 2), Dec(50, 2), Dec(5, 1), Dec(55, 2), Dec(60, 2)}

BookSizes == {Dec(100, 0), Dec(200, 0)}

Level(p, z) == [price |-> p, size |-> z]

LevelSet == {Level(p, z) : p \in BookPrices, z \in BookSizes}

LevelLists == UNION {[1..n -> LevelSet] : n \in 0..MaxLevels}

InitBook ==
    /\ cmd = "book"
    /\ IdleBase
    /\ IdleSearch
    /\ IdleStatus
    /\ IdleResolve
    /\ IdleBalance
    /\ levels \in LevelLists
    /\ sorted = <<>>
    /\ resorted = <<>>
    /\ bpc = "call"

\* let bids = sort_bids(book.bids);
SortBids ==
    /\ cmd = "book" /\ bpc = "call"
    /\ sorted' = sort_bids(levels)
    /\ bpc' = "bids"
    /\ UNCHANGED <<cmd, amountVars, approveVars, orderVars, searchVars, statusVars, resolveVars, balanceVars,
                   levels, resorted>>

\* let asks = sort_asks(book.asks);
SortAsks ==
    /\ cmd = "book" /\ bpc = "call"
    /\ sorted' = sort_asks(levels)
    /\ bpc' = "asks"
    /\ UNCHANGED <<cmd, amountVars, approveVars, orderVars, searchVars, statusVars, resolveVars, balanceVars,
                   levels, resorted>>

\* sort_bids on what sort_bids returned
SortBidsAgain ==
    /\ cmd = "book" /\ bpc = "bids"
    /\ resorted' = sort_bids(sorted)
    /\ bpc' = "bids_twice"
    /\ UNCHANGED <<cmd, amountVars, approveVars, orderVars, searchVars, statusVars, resolveVars, balanceVars,
                   levels, sorted>>

\* sort_asks on what sort_asks returned
SortAsksAgain ==
    /\ cmd = "book" /\ bpc = "asks"
    /\ resorted' = sort_asks(sorted)
    /\ bpc' = "asks_twice"
    /\ UNCHANGED <<cmd, amountVars, approveVars, orderVars, searchVars, statusVars, resolveVars, balanceVars,
                   levels, sorted>>

NextBook ==
    \/ SortBids
    \/ SortAsks
    \/ SortBidsAgain
    \/ SortAsksAgain

SpecBook == InitBook /\ [][NextBook]_vars

\* ------------------------------------------------ status::format_balance

\* The most digits of the raw balances that are all tried.
MaxRawDigits == 2

\* The token's decimals: format_balance divides by 1_000_000 = 10^6.
TokenDecimals == 6

\* The integers written with up to n digits, as U256::to_string writes them:
\* no leading zero, "0" for zero.
RECURSIVE DigitStrings(_)
DigitStrings(n) ==
    IF n = 0 THEN {}
    ELSE IF n = 1 THEN {<<d>> : d \in Digits}
    ELSE DigitStrings(n - 1)
         \cup {Append(str, d) : str \in {u \in DigitStrings(n - 1) : Len(u) = n - 1 /\ u[1] # "0"},
                                d \in Digits}

\* U256::MAX = 2^256 - 1
U256MaxDigits ==
    <<"1", "1", "5", "7", "9", "2", "0", "8", "9", "2", "3", "7", "3", "1", "6", "1",
      "9", "5", "4", "2", "3", "5", "7", "0", "9", "8", "5", "0", "0", "8", "6", "8",
      "7", "9", "0", "7", "8", "5", "3", "2", "6", "9", "9", "8", "4", "6", "6", "5",
      "6", "4", "0", "5", "6", "4", "0", "3", "9", "4", "5", "7", "5", "8", "4", "0",
      "0", "7", "9", "1", "3", "1", "2", "9", "6", "3", "9", "9", "3", "5">>

\* The raw balances of the unit tests.
TestBalances ==
    {<<"0">>, <<"1">>, <<"1", "0", "0", "0", "0", "0", "0">>,
     <<"4", "2", "8", "1", "8", "4", "2">>,
     <<"1", "0", "0", "0", "0", "0", "0", "0", "0", "0">>}

RawBalances ==
    DigitStrings(MaxRawDigits) \cup TestBalances
        \cup {DecimalMaxDigits, TwoPow96Digits, U256MaxDigits}

\* A Decimal whose mantissa is kept in digits, for values beyond the integers
\* of the checker.
BigDec(digits, scale) == [m |-> digits, s |-> scale]

BigZero == BigDec(<<"0">>, 0)

\* Decimal::from_str on the digits of an integer: an error when the value does
\* not fit the 96-bit mantissa.
decimal_from_integer_str(str) ==
    IF DigitsLeq(str, DecimalMaxDigits) THEN Some(BigDec(str, 0)) ELSE None

\* .unwrap_or_default(): Decimal::default() is zero.
unwrap_or_default(parsed) == IF parsed.some THEN parsed.v ELSE BigZero

\* How many of the last `most` digits are zeros at the end of the number.
RECURSIVE TrailingZeros(_, _)
TrailingZeros(digits, most) ==
    IF most = 0 \/ Len(digits) <= 1 \/ digits[Len(digits)] # "0" THEN 0
    ELSE 1 + TrailingZeros(SubSeq(digits, 1, Len(digits) - 1), most - 1)

\* d / Decimal::from(1_000_000) for an integer d: the quotient is exact, with
\* no more fractional digits than it needs.
div_million(d) ==
    IF d.m = <<"0">> THEN BigZero
    ELSE LET z == TrailingZeros(d.m, TokenDecimals)
         IN BigDec(SubSeq(d.m, 1, Len(d.m) - z), TokenDecimals - z)

format_balance(raw_balance) ==
    div_million(unwrap_or_default(decimal_from_integer_str(raw_balance)))

InitBalance ==
    /\ cmd = "balance"
    /\ IdleBase
    /\ IdleSearch
    /\ IdleStatus
    /\ IdleResolve
    /\ IdleBook
    /\ raw \in RawBalances
    /\ formatted = None
    /\ fpc = "call"

\* println!(.., format_balance(balance))
FormatBalance ==
    /\ cmd = "balance" /\ fpc = "call"
    /\ formatted' = format_balance(raw)
    /\ fpc' = "returned"
    /\ UNCHANGED <<cmd, amountVars, approveVars, orderVars, searchVars, statusVars, resolveVars, bookVars, raw>>

NextBalance == FormatBalance

SpecBalance == InitBalance /\ [][NextBalance]_vars

\* ------------------------------------------------ search::parse_outcomes

JsonWhitespace == {" "}

\* serde_json::from_str::<Vec<String>>, read character by character from
\* position i on: st is where the parser stands, cur the string being read,
\* acc the strings read so far. Of the escapes only \", \\ and \/ are read;
\* the texts tried hold no other.
RECURSIVE json_string_array(_, _, _, _, _)
json_string_array(str, i, st, cur, acc) ==
    IF i > Len(str) THEN (IF st = "end" THEN Some(acc) ELSE None)
    ELSE LET c == str[i] IN
        CASE st = "start" ->
                IF c \in JsonWhitespace THEN json_string_array(str, i + 1, "start", cur, acc)
                ELSE IF c = "[" THEN json_string_array(str, i + 1, "first", cur, acc)
                ELSE None
          [] st = "first" ->
                IF c \in JsonWhitespace THEN json_string_array(str, i + 1, "first", cur, acc)
                ELSE IF c = "\"" THEN json_string_array(str, i + 1, "in_string", <<>>, acc)
                ELSE IF c = "]" THEN json_string_array(str, i + 1, "end", cur, acc)
                ELSE None
          [] st = "in_string" ->
                IF c = "\"" THEN json_string_array(str, i + 1, "after_elem", <<>>, Append(acc, cur))
                ELSE IF c = "\\" THEN json_string_array(str, i + 1, "escape", cur, acc)
                ELSE json_string_array(str, i + 1, "in_string", Append(cur, c), acc)
          [] st = "escape" ->
                IF c \in {"\"", "\\", "/"}
                    THEN json_string_array(str, i + 1, "in_string", Append(cur, c), acc)
                ELSE None
          [] st = "after_elem" ->
                IF c \in JsonWhitespace THEN json_string_array(str, i + 1, "after_elem", cur, acc)
                ELSE IF c = "," THEN json_string_array(str, i + 1, "need_elem", cur, acc)
                ELSE IF c = "]" THEN json_string_array(str, i + 1, "end", cur, acc)
                ELSE None
          [] st = "need_elem" ->
                IF c \in JsonWhitespace THEN json_string_array(str, i + 1, "need_elem", cur, acc)
                ELSE IF c = "\"" THEN json_string_array(str, i + 1, "in_string", <<>>, acc)
                ELSE None
          [] OTHER ->
                IF c \in JsonWhitespace THEN json_string_array(str, i + 1, "end", cur, acc)
                ELSE None

\* serde_json::from_str(str).ok()
from_str_ok(str) == json_string_array(str, 1, "start", <<>>, <<>>)

\* a.into_iter().zip(b.into_iter()).collect(): as long as the shorter one
zip(a, b) ==
    [i \in 1..(IF Len(a) <= Len(b) THEN Len(a) ELSE Len(b)) |-> <<a[i], b[i]>>]

\* A mutant: the two lists are paired without a look at their lengths.
parse_outcomes_zip_shortest(o_str, t_str) ==
    LET outcomes == from_str_ok(o_str)
        token_ids == from_str_ok(t_str)
    IN IF ~outcomes.some THEN None
       ELSE IF ~token_ids.some THEN None
       ELSE Some(zip(outcomes.v, token_ids.v))

parse_outcomes(o_str, t_str) ==
    LET outcomes == from_str_ok(o_str)
        token_ids == from_str_ok(t_str)
    IN IF ~outcomes.some THEN None
       ELSE IF ~token_ids.some THEN None
       ELSE IF Len(outcomes.v) = 0 \/ Len(outcomes.v) # Len(token_ids.v) THEN None
       ELSE Some(zip(outcomes.v, token_ids.v))

\* The texts of the unit tests and some more, each with the array of strings
\* it is as JSON, or None when it is not a JSON array of strings.
JsonCases == {
    [text |-> <<"[", "\"", "Y", "e", "s", "\"", ",", "\"", "N", "o", "\"", "]">>,
     array |-> Some(<<<<"Y", "e", "s">>, <<"N", "o">>>>)],
    [text |-> <<"[", "\"", "t", "o", "k", "e", "n", "_", "a", "\"", ",", "\"",
               "t", "o", "k", "e", "n", "_", "b", "\"", "]">>,
     array |-> Some(<<<<"t", "o", "k", "e", "n", "_", "a">>, <<"t", "o", "k", "e", "n", "_", "b">>>>)],
    [text |-> <<"[", "]">>,
     array |-> Some(<<>>)],
    [text |-> <<"[", "\"", "t", "o", "k", "e", "n", "_", "a", "\"", "]">>,
     array |-> Some(<<<<"t", "o", "k", "e", "n", "_", "a">>>>)],
    [text |-> <<"n", "o", "t", " ", "j", "s", "o", "n">>,
     array |-> None],
    [text |-> <<"[", "\"", "Y", "e", "s", "\"", "]">>,
     array |-> Some(<<<<"Y", "e", "s">>>>)],
    [text |-> <<"[", "\"", "t", "o", "k", "e", "n", "_", "x", "\"", "]">>,
     array |-> Some(<<<<"t", "o", "k", "e", "n", "_", "x">>>>)],
    [text |-> <<"[", " ", "\"", "Y", "e", "s", "\"", " ", ",", " ", "\"", "N",
               "o", "\"", " ", "]">>,
     array |-> Some(<<<<"Y", "e", "s">>, <<"N", "o">>>>)],
    [text |-> <<"[", "\"", "Y", "e", "s", "\"", ",", "]">>,
     array |-> None],
    [text |-> <<"[", "\"", "Y", "e", "s", "\"", ",", "\"", "N", "o", "\"">>,
     array |-> None],
    [text |-> <<"[", "1", ",", "2", "]">>,
     array |-> None],
    [text |-> <<>>,
     array |-> None],
    [text |-> <<"[", "\"", "Y", "e", "s", "\"", "]", "x">>,
     array |-> None],
    [text |-> <<"n", "u", "l", "l">>,
     array |-> None],
    [text |-> <<"\"", "Y", "e", "s", "\"">>,
     array |-> None],
    [text |-> <<"[", "\"", "\"", "]">>,
     array |-> Some(<<<<>>>>)],
    [text |-> <<"[", "\"", "a", "\\", "\"", "b", "\"", "]">>,
     array |-> Some(<<<<"a", "\"", "b">>>>)],
    [text |-> <<"[", "\"", "Y", "e", "s", "\"", " ", "\"", "N", "o", "\"", "]">>,
     array |-> None],
    [text |-> <<" ", "[", "]", " ">>,
     array |-> Some(<<>>)]}

JsonTexts == {c.text : c \in JsonCases}

InitSearch ==
    /\ cmd = "search"
    /\ IdleBase
    /\ IdleResolve
    /\ IdleBook
    /\ IdleBalance
    /\ IdleStatus
    /\ outcomes_str \in JsonTexts
    /\ token_ids_str \in JsonTexts
    /\ pairs = None
    /\ ppc = "call"

ParseOutcomes ==
    /\ cmd = "search" /\ ppc = "call"
    /\ pairs' = parse_outcomes(outcomes_str, token_ids_str)
    /\ ppc' = "returned"
    /\ UNCHANGED <<cmd, amountVars, approveVars, orderVars, resolveVars, bookVars,
                   balanceVars, statusVars, outcomes_str, token_ids_str>>

NextSearch == ParseOutcomes

SpecSearch == InitSearch /\ [][NextSearch]_vars

\* ------------------------------------------------------- status::execute

\* What balanceOf may answer: the balances of the unit tests, the one-digit
\* ones, and the largest.
StatusBalances ==
    TestBalances \cup DigitStrings(1) \cup {DecimalMaxDigits, TwoPow96Digits, U256MaxDigits}

\* An entry of the log of status::execute.
SStep(op, token, ok) == [op |-> op, token |-> token, outcome |-> Outcome(ok)]

InitStatus ==
    /\ cmd = "status"
    /\ IdleBase
    /\ IdleResolve
    /\ IdleBook
    /\ IdleBalance
    /\ IdleSearch
    /\ skey \in {"missing", "invalid", "valid"}
    /\ spc = "start"
    /\ stk = 0
    /\ slog = <<>>
    /\ sreport = <<>>

\* A step of execute that `?` guards and that is outside the balance loop.
SAdvance(here, op, ok, next) ==
    /\ cmd = "status" /\ spc = here
    /\ slog' = Append(slog, SStep(op, "-", ok))
    /\ spc' = IF ok THEN next ELSE "failed"
    /\ UNCHANGED <<cmd, amountVars, approveVars, orderVars, resolveVars, bookVars,
                   balanceVars, searchVars, skey, sreport>>

\* env::var(PRIVATE_KEY_VAR).context("Need PRIVATE_KEY environment variable")?
SReadKey ==
    /\ SAdvance("start", "env_private_key", skey # "missing", "signer")
    /\ UNCHANGED stk

\* LocalSigner::from_str(&private_key)?
SSigner ==
    /\ SAdvance("signer", "signer_from_str", skey = "valid", "derive")
    /\ UNCHANGED stk

\* derive_proxy_wallet(owner, POLYGON).context("Failed to derive proxy wallet")?
SDerive ==
    /\ \E ok \in BOOLEAN : SAdvance("derive", "derive_proxy_wallet", ok, "connect")
    /\ UNCHANGED stk

\* ProviderBuilder::new().wallet(..).connect(RPC_URL).await?
SConnect ==
    /\ \E ok \in BOOLEAN : SAdvance("connect", "connect", ok, "balance")
    /\ stk' = 1

\* let balance = check_balance(token, proxy_address).await?;
\* println!("{}: ${}", name, format_balance(balance));
SCheckBalance ==
    /\ cmd = "status" /\ spc = "balance"
    /\ \E answer \in {None} \cup {Some(r) : r \in StatusBalances} :
        /\ slog' = Append(slog, SStep("check_balance", Tokens[stk], answer.some))
        /\ IF answer.some
             THEN /\ sreport' = Append(sreport, [token |-> Tokens[stk],
                                                 balance |-> format_balance(answer.v)])
                  /\ IF stk < Len(Tokens) THEN stk' = stk + 1 /\ spc' = "balance"
                     ELSE stk' = stk /\ spc' = "done"
             ELSE /\ sreport' = sreport
                  /\ stk' = stk
                  /\ spc' = "failed"
    /\ UNCHANGED <<cmd, amountVars, approveVars, orderVars, resolveVars, bookVars,
                   balanceVars, searchVars, skey>>

NextStatus ==
    \/ SReadKey
    \/ SSigner
    \/ SDerive
    \/ SConnect
    \/ SCheckBalance

SpecStatus == InitStatus /\ [][NextStatus]_vars

\* Any of the commands.
Init ==
    InitAmount \/ InitApprove \/ InitOrder \/ InitResolve \/ InitBook \/ InitBalance
        \/ InitSearch \/ InitStatus

Next ==
    NextAmount \/ NextApprove \/ NextOrder \/ NextResolve \/ NextBook \/ NextBalance
        \/ NextSearch \/ NextStatus

Spec == Init /\ [][Next]_vars

\* ------------------------------------------------- claims: the normalizer

\* truncate2 as the specification means it: the multiple of 0.01 nearest to a
\* among those not larger in magnitude, computed from the number of whole
\* hundredths in |a|.
Truncate2(a) == Dec(Sgn(a.m) * ((Abs(a.m) * 100) \div Pow10(a.s)), 2)

DecLeq(x, y) == x.m * Pow10(y.s) <= y.m * Pow10(x.s)

\* a - t < 0.01
DecGapBelowCent(a, t) ==
    100 * (a.m * Pow10(t.s) - t.m * Pow10(a.s)) < Pow10(a.s + t.s)

Returned == cmd = "amount" /\ npc = "returned"

C2_SellIgnoresPrice ==
    (Returned /\ side = "Sell") =>
        /\ \A p \in PriceOpts : compute_order_amount("Sell", amount, p, accepts) = result
        /\ accepts => result.tag = "Ok"
        /\ ~accepts => result = Err("Invalid Share amount")
        /\ result.tag = "Ok" =>
            /\ result.kind = "Shares"
            /\ DecEq(result.value, Truncate2(amount))

C2_Witness ==
    /\ Returned /\ side = "Sell"
    /\ amount = Dec(5000, 2) /\ price = Some(Dec(70, 2))
    /\ result = Ok("Shares", Dec(5000, 2))

\* C3: a buy without a price yields Notional(t) where t has at most two
\* fractional digits and, for a >= 0, t <= a and a - t < 0.01; 10.999 gives
\* 10.99.
C3_TruncationNeverRoundsUp ==
    (Returned /\ side = "Buy" /\ ~price.some) =>
        /\ accepts => result.tag = "Ok"
        /\ result.tag = "Ok" =>
            /\ result.kind = "Usdc"
            /\ Normalize(result.value).s <= 2
            /\ amount.m >= 0 =>
                /\ DecLeq(result.value, amount)
                /\ DecGapBelowCent(amount, result.value)
                /\ result.value.m >= 0
            /\ amount = Dec(10999, 3) => DecEq(result.value, Dec(1099, 2))

C3_Witness ==
    /\ Returned /\ side = "Buy" /\ price = None
    /\ amount = Dec(10999, 3)
    /\ result = Ok("Usdc", Dec(1099, 2))

\* ----------------------------------------------------- claims: approve

IsQuery(e) == e.op \in {"allowance", "isApprovedForAll"}

IsTx(e) == e.op \in {"approve", "setApprovalForAll"}

IsNetwork(e) == e.op = "connect" \/ IsQuery(e) \/ IsTx(e)

\* The number of entries of the call log, among the first n, that satisfy P.
CountUpTo(n, P(_)) == Cardinality({j \in 1..n : P(alog[j])})

ApproveDone == cmd = "approve" /\ apc = "done"

\* C5: a dry run makes no network call and no wait at any point, fails only
\* when the target list cannot be built, and on success has reported exactly
\* the targets, one descriptor each, in the order of the list.
C5_DryRunReportsTargetsOffline ==
    (cmd = "approve" /\ dry_run) =>
        /\ alog = <<>>
        /\ apc \in {"start", "built", "done", "failed"}
        /\ apc = "failed" => ~(cfg.std.some /\ cfg.neg.some)
        /\ apc = "done" =>
            /\ Len(report) = Len(targets)
            /\ \A i \in 1..Len(targets) : report[i] = targets[i]
        /\ apc # "done" => report = <<>>

C5_Witness ==
    /\ ApproveDone /\ dry_run
    /\ Len(report) = 3
    /\ alog = <<>>
    /\ key = "missing"

\* C6: the target list is [CTF Exchange, Neg Risk CTF Exchange] followed by the
\* Neg Risk Adapter exactly when the configuration has one; its addresses are
\* the configured ones and none is the zero address.
C6_TargetsInFixedOrder ==
    (cmd = "approve" /\ apc \notin {"start", "failed"}) =>
        /\ cfg.std.some /\ cfg.neg.some
        /\ Len(targets) = IF cfg.neg.v.neg_risk_adapter.some THEN 3 ELSE 2
        /\ targets[1] = [name |-> "CTF Exchange", addr |-> cfg.std.v.exchange]
        /\ targets[2] = [name |-> "Neg Risk CTF Exchange", addr |-> cfg.neg.v.exchange]
        /\ Len(targets) = 3 =>
            targets[3] = [name |-> "Neg Risk Adapter",
                          addr |-> cfg.neg.v.neg_risk_adapter.v]
        /\ \A i \in 1..Len(targets) : targets[i].addr # ZeroAddress

C6_Witness ==
    /\ cmd = "approve" /\ apc = "built"
    /\ Len(targets) = 3
    /\ targets[3].name = "Neg Risk Adapter"

\* C7: once the Approving phase is over, whatever transactions failed, the log
\* holds for every target one approve per token and one setApprovalForAll, each
\* with its outcome; and the run never ends in failure after a transaction.
C7_FailedTransactionNeverAborts ==
    /\ (cmd = "approve" /\ apc \in {"verify_allowance", "verify_ctf", "done"} /\ ~dry_run) =>
        \A i \in 1..Len(targets) :
            /\ \A k \in 1..Len(Tokens) :
                Cardinality({j \in 1..Len(alog) :
                    /\ alog[j].op = "approve"
                    /\ alog[j].target = targets[i].addr
                    /\ alog[j].token = Tokens[k]
                    /\ alog[j].outcome \in {"Success", "Failed"}}) = 1
            /\ Cardinality({j \in 1..Len(alog) :
                    /\ alog[j].op = "setApprovalForAll"
                    /\ alog[j].target = targets[i].addr
                    /\ alog[j].outcome \in {"Success", "Failed"}}) = 1
    /\ (cmd = "approve" /\ apc \in {"failed", "panic"}) =>
        \A j \in 1..Len(alog) : ~IsTx(alog[j])

\* The first approve failed, and the last setApprovalForAll still ran.
C7_Witness ==
    /\ ApproveDone /\ ~dry_run /\ Len(targets) = 3
    /\ \E j \in 1..Len(alog) :
        /\ alog[j].op = "approve" /\ alog[j].outcome = "Failed"
        /\ alog[j].target = targets[1].addr /\ alog[j].token = "USDC.e"
    /\ \E j \in 1..Len(alog) :
        /\ alog[j].op = "setApprovalForAll" /\ alog[j].outcome = "Success"
        /\ alog[j].target = targets[3].addr

\* C8: every transaction and every wait comes after all the queries of
\* Checking (three per target), and every query made after a transaction comes
\* after all the transactions (three per target).
C8_PhasesInOrder ==
    cmd = "approve" =>
        \A j \in 1..Len(alog) :
            /\ (IsTx(alog[j]) \/ alog[j].op = "sleep") =>
                /\ CountUpTo(j, IsQuery) = 3 * Len(targets)
                /\ \A i \in 1..j : IsQuery(alog[i]) => alog[i].phase = "checking"
            /\ (IsQuery(alog[j]) /\ CountUpTo(j, IsTx) > 0) =>
                /\ CountUpTo(j, IsTx) = 3 * Len(targets)
                /\ alog[j].phase = "verifying"
            /\ (IsQuery(alog[j]) /\ CountUpTo(j, IsTx) = 0) => alog[j].phase = "checking"

C8_Witness ==
    /\ ApproveDone /\ ~dry_run /\ Len(targets) = 3
    /\ CountUpTo(Len(alog), IsQuery) = 18
    /\ CountUpTo(Len(alog), IsTx) = 9

\* C9 as stated: a wait precedes and follows every transaction, the last
\* target's setApprovalForAll included.
C9_WaitAroundEveryTransaction ==
    cmd = "approve" =>
        \A j \in 1..Len(alog) :
            IsTx(alog[j]) =>
                /\ j > 1 /\ alog[j - 1].op = "sleep"
                /\ j < Len(alog) => alog[j + 1].op = "sleep"
                /\ j = Len(alog) => apc # "done"

\* C9 as amended: a wait precedes every transaction and follows every approve,
\* failed or not; a setApprovalForAll is followed by a wait only when another
\* target remains, and the last one is followed at once by Verifying's first
\* query.
C9_WaitBeforeEveryTransaction ==
    cmd = "approve" =>
        \A j \in 1..Len(alog) :
            /\ IsTx(alog[j]) => j > 1 /\ alog[j - 1].op = "sleep"
            /\ alog[j].op = "approve" =>
                /\ apc # "token_wait" => j < Len(alog)
                /\ j < Len(alog) => alog[j + 1].op = "sleep"
            /\ alog[j].op = "setApprovalForAll" =>
                /\ j > 2 /\ alog[j - 2].op = "sleep"
                /\ (j < Len(alog) /\ alog[j].target # targets[Len(targets)].addr) =>
                    alog[j + 1].op = "sleep"
                /\ (j < Len(alog) /\ alog[j].target = targets[Len(targets)].addr) =>
                    alog[j + 1] = Ev("allowance", "verifying", targets[1].addr, "USDC.e", "-")

\* A failed approve was followed by its wait, and the run went on to the end.
C9_Witness ==
    /\ ApproveDone /\ ~dry_run
    /\ \E j \in 1..Len(alog) - 1 :
        /\ alog[j].op = "approve" /\ alog[j].outcome = "Failed"
        /\ alog[j + 1].op = "sleep"
    /\ alog[Len(alog)].op = "isApprovedForAll"

\* ------------------------------------------------------- claims: order

\* The steps of execute up to the signing, in the order of the code.
StepsBeforePost ==
    <<"env_private_key", "signer_from_str", "authenticate", "ok", "api_keys",
      "parse_side", "parse_amount">>
    \o (IF oprice.some THEN <<"parse_price">> ELSE <<>>)
    \o <<"compute_order_amount", "build", "sign">>

\* C10: post_order runs at most once, and only after every earlier step, in
\* the code's order, has succeeded; a failed step is the last step of the run,
\* and the order posted is built from an accepted amount and signed.
C10_OrderPathFailsFast ==
    cmd = "order" =>
        /\ Cardinality({j \in 1..Len(olog) : olog[j].op = "post_order"}) <= 1
        /\ Len(posted) = Cardinality({j \in 1..Len(olog) : olog[j].op = "post_order"})
        /\ \A j \in 1..Len(olog) :
            /\ olog[j].op = "post_order" =>
                /\ j - 1 = Len(StepsBeforePost)
                /\ \A i \in 1..(j - 1) :
                    olog[i] = [op |-> StepsBeforePost[i], outcome |-> "Success"]
            /\ olog[j].outcome = "Failed" => j = Len(olog) /\ opc = "failed"
        /\ opc = "failed" => Len(olog) > 0 /\ olog[Len(olog)].outcome = "Failed"
        /\ \A i \in 1..Len(posted) :
            /\ posted[i].signed
            /\ posted[i].amount.tag = "Ok"
            /\ posted[i].side \in {"Buy", "Sell"}

C10_Witness ==
    /\ cmd = "order" /\ opc = "done"
    /\ oprice.some
    /\ Len(posted) = 1
    /\ Len(olog) = 12
    /\ olog[12] = [op |-> "post_order", outcome |-> "Success"]

NetworkSteps == {"authenticate", "ok", "api_keys", "build", "post_order"}

\* The side, the amount or the supplied price does not parse.
MalformedInput ==
    \/ parse_side(oside).tag # "Ok"
    \/ ~decimal_from_str(oamount).some
    \/ oprice.some /\ ~decimal_from_str(oprice.v).some

\* C11: with a malformed side, amount or price no request is ever sent to the
\* matching engine: the run fails before authenticating.
C11_MalformedInputFailsBeforeNetwork ==
    (cmd = "order" /\ MalformedInput) =>
        \A j \in 1..Len(olog) : olog[j].op \notin NetworkSteps

C12_WitnessPriced ==
    /\ cmd = "order" /\ opc = "done"
    /\ oprice.some
    /\ Len(posted) = 1
    /\ posted[1].order_type = "FOK"

\* The string is the word, letter by letter, each letter in either case.
EqIgnoreCase(str, word) ==
    /\ Len(str) = Len(word)
    /\ \A i \in 1..Len(word) :
        \E k \in 1..Len(LowerLetters) :
            /\ word[i] = LowerLetters[k]
            /\ str[i] \in {LowerLetters[k], UpperLetters[k]}

ParseSideStep == {j \in 1..Len(olog) : olog[j].op = "parse_side"}

\* C18: parse_side gives Buy exactly for "buy" in any letter case, Sell exactly
\* for "sell" in any letter case, and the "Invalid side" error for every other
\* string, the empty string and the prefix "b" included; the run takes the
\* side parsed, or fails at that step.
C18_ParseSideIgnoresCase ==
    cmd = "order" =>
        /\ parse_side(oside) =
               IF EqIgnoreCase(oside, <<"b", "u", "y">>)
                   THEN [tag |-> "Ok", side |-> "Buy"]
               ELSE IF EqIgnoreCase(oside, <<"s", "e", "l", "l">>)
                   THEN [tag |-> "Ok", side |-> "Sell"]
               ELSE Err("Invalid side: must be 'buy' or 'sell'")
        /\ \A j \in ParseSideStep :
            IF EqIgnoreCase(oside, <<"b", "u", "y">>)
                THEN olog[j].outcome = "Success" /\ loc.side_enum = "Buy"
            ELSE IF EqIgnoreCase(oside, <<"s", "e", "l", "l">>)
                THEN olog[j].outcome = "Success" /\ loc.side_enum = "Sell"
            ELSE olog[j].outcome = "Failed" /\ opc = "failed" /\ loc.side_enum = "-"

\* The side "bUy" was parsed as Buy.
C18_Witness ==
    /\ cmd = "order"
    /\ oside = <<"b", "U", "y">>
    /\ ParseSideStep # {}
    /\ loc.side_enum = "Buy"

\* The side "b" was refused.
C18_WitnessPrefix ==
    /\ cmd = "order"
    /\ oside = <<"b">>
    /\ ParseSideStep # {}
    /\ opc = "failed"

\* The addresses of the target list, in its order.
TargetAddrs == [i \in 1..Len(targets) |-> targets[i].addr]

\* The targets of the calls of a phase, in the order of the calls.
TouchedBy(phase) ==
    LET calls == SelectSeq(alog, LAMBDA e : e.phase = phase /\ (IsQuery(e) \/ IsTx(e)))
    IN [i \in 1..Len(calls) |-> calls[i].target]

\* A sequence without the elements that repeat their predecessor.
RECURSIVE Compress(_)
Compress(seq) ==
    IF Len(seq) <= 1 THEN seq
    ELSE IF seq[1] = seq[2] THEN Compress(Tail(seq))
    ELSE <<seq[1]>> \o Compress(Tail(seq))

IsPrefix(s, u) == Len(s) <= Len(u) /\ s = SubSeq(u, 1, Len(s))

\* C19: in each of the three phases the targets are visited in the order of the
\* target list, each once, so the targets a phase has touched so far are a
\* prefix of the list; Approving has touched a prefix of what Checking touched
\* and Verifying a prefix of what Approving touched, and a finished run has
\* touched the whole list in every phase.
C19_PhasesVisitTargetsInListOrder ==
    cmd = "approve" =>
        /\ \A phase \in {"checking", "approving", "verifying"} :
            IsPrefix(Compress(TouchedBy(phase)), TargetAddrs)
        /\ IsPrefix(Compress(TouchedBy("approving")), Compress(TouchedBy("checking")))
        /\ IsPrefix(Compress(TouchedBy("verifying")), Compress(TouchedBy("approving")))
        /\ TouchedBy("approving") # <<>> => Compress(TouchedBy("checking")) = TargetAddrs
        /\ TouchedBy("verifying") # <<>> => Compress(TouchedBy("approving")) = TargetAddrs
        /\ (ApproveDone /\ ~dry_run) => Compress(TouchedBy("verifying")) = TargetAddrs

\* A run with the adapter configured stands in the middle of Approving: the
\* two exchanges are done and the adapter's first approve has been sent.
C19_Witness ==
    /\ cmd = "approve" /\ ~dry_run /\ Len(targets) = 3
    /\ apc = "token_wait" /\ ti = 3 /\ tk = 1
    /\ Compress(TouchedBy("approving")) = TargetAddrs
    /\ TouchedBy("verifying") = <<>>

\* ------------------------------------------- claims: address resolution

Resolved == cmd = "resolve" /\ rpc = "returned"

Consulted(source) == \E j \in 1..Len(rlog) : rlog[j] = source

\* C13: the explicit address, when given, decides the result and no
\* environment variable is read; otherwise a readable USER_ADDRESS decides it
\* and PRIVATE_KEY is not read; the private key is used only when neither is
\* there. With both an explicit and an environment address the explicit one is
\* returned.
C13_FirstPopulatedSourceWins ==
    cmd = "resolve" =>
        /\ ruser.some =>
            /\ ~Consulted("env(USER_ADDRESS)") /\ ~Consulted("env(PRIVATE_KEY)")
            /\ ~Consulted("signer_from_str")
            /\ Resolved => rresult = WithContext(address_from_str(ruser.v),
                                                 "Invalid address format")
        /\ (~ruser.some /\ renv.kind = "Ok") =>
            /\ ~Consulted("env(PRIVATE_KEY)") /\ ~Consulted("signer_from_str")
            /\ Resolved => rresult = WithContext(address_from_str(renv.value),
                                                 "Invalid address format in USER_ADDRESS")
        /\ (Resolved /\ ~ruser.some /\ renv.kind # "Ok" /\ rkey = EnvOk("valid")) =>
            rresult = AddrOk(KeyAddress)
        /\ (Resolved /\ ruser = Some(TestAddress)) =>
            rresult = AddrOk(to_lowercase(SubSeq(TestAddress, 3, Len(TestAddress))))

\* The explicit test address was returned although USER_ADDRESS held another
\* valid address and a valid private key was configured.
C13_Witness ==
    /\ Resolved
    /\ ruser = Some(TestAddress)
    /\ renv = EnvOk(OtherAddress)
    /\ rkey = EnvOk("valid")
    /\ rresult.tag = "Ok"
    /\ rresult.address # to_lowercase(OtherAddress)
    /\ rresult.address # KeyAddress

\* The USER_ADDRESS value is set and is not an address.
InvalidUserAddressEnv ==
    \/ renv.kind = "NotUnicode"
    \/ renv.kind = "Ok" /\ ~address_from_str(renv.value).some

\* C14: an invalid explicit address fails the resolution whatever the
\* environment holds, and an invalid USER_ADDRESS value fails it even with a
\* valid private key.
C14_InvalidSourceNeverFallsThrough ==
    Resolved =>
        /\ (ruser.some /\ ~address_from_str(ruser.v).some) => rresult.tag = "Err"
        /\ (~ruser.some /\ InvalidUserAddressEnv) => rresult.tag = "Err"

\* The part of C14 about the explicit address, which the code keeps.
C14_InvalidExplicitFails ==
    (Resolved /\ ruser.some /\ ~address_from_str(ruser.v).some) =>
        rresult = Err("Invalid address format")

\* No source gives an address: no explicit one, USER_ADDRESS unset, and the
\* private key unset, unreadable or not a key.
NoUsableSource ==
    /\ ~ruser.some
    /\ renv = EnvUnset
    /\ rkey \in {EnvUnset, EnvNotUnicode, EnvOk("invalid")}

\* C15: without an explicit address, with USER_ADDRESS unset and no usable
\* private key, resolve_user_address returns an error and no address.
C15_NoSourceIsAnError ==
    (Resolved /\ NoUsableSource) =>
        /\ rresult.tag = "Err"
        /\ rresult.ctx \in {"PRIVATE_KEY or USER_ADDRESS env var not set",
                            "Invalid private key"}

\* Nothing was configured and the call returned the "not set" error.
C15_Witness ==
    /\ Resolved
    /\ ~ruser.some /\ renv = EnvUnset /\ rkey = EnvUnset
    /\ rresult = Err("PRIVATE_KEY or USER_ADDRESS env var not set")

\* Only an unusable private key was configured.
C15_WitnessBadKey ==
    /\ Resolved
    /\ ~ruser.some /\ renv = EnvUnset /\ rkey = EnvOk("invalid")
    /\ rresult = Err("Invalid private key")

\* ------------------------------------------------ claims: the order book

BidsSorted == cmd = "book" /\ bpc \in {"bids", "bids_twice"}

AsksSorted == cmd = "book" /\ bpc \in {"asks", "asks_twice"}

\* How often a level occurs in a list.
Occurrences(l, seq) == Cardinality({i \in 1..Len(seq) : seq[i] = l})

IsPermutation(out, in) ==
    /\ Len(out) = Len(in)
    /\ \A l \in LevelSet : Occurrences(l, out) = Occurrences(l, in)

\* C16: what sort_bids returns has the length and the levels of its input,
\* each as often and with its price and size as they were, prices
\* non-increasing; what sort_asks returns likewise, prices non-decreasing;
\* the empty list and a single level come back as they are.
C16_SortsArePermutationsInPriceOrder ==
    /\ BidsSorted =>
        /\ IsPermutation(sorted, levels)
        /\ \A i \in 1..(Len(sorted) - 1) : DecLeq(sorted[i + 1].price, sorted[i].price)
        /\ Len(levels) <= 1 => sorted = levels
    /\ AsksSorted =>
        /\ IsPermutation(sorted, levels)
        /\ \A i \in 1..(Len(sorted) - 1) : DecLeq(sorted[i].price, sorted[i + 1].price)
        /\ Len(levels) <= 1 => sorted = levels

\* The bids of the unit test came out as 0.50, 0.40, 0.30.
C16_Witness ==
    /\ BidsSorted
    /\ levels = <<Level(Dec(30, 2), Dec(100, 0)), Level(Dec(50, 2), Dec(200, 0)),
                  Level(Dec(40, 2), Dec(100, 0))>>
    /\ sorted = <<Level(Dec(50, 2), Dec(200, 0)), Level(Dec(40, 2), Dec(100, 0)),
                  Level(Dec(30, 2), Dec(100, 0))>>

\* The asks of the unit test came out as 0.50, 0.55, 0.60.
C16_WitnessAsks ==
    /\ AsksSorted
    /\ levels = <<Level(Dec(60, 2), Dec(100, 0)), Level(Dec(50, 2), Dec(200, 0)),
                  Level(Dec(55, 2), Dec(100, 0))>>
    /\ sorted = <<Level(Dec(50, 2), Dec(200, 0)), Level(Dec(55, 2), Dec(100, 0)),
                  Level(Dec(60, 2), Dec(100, 0))>>

\* The levels of a list whose price equals p, in the order of the list.
AtPrice(seq, p) == SelectSeq(seq, LAMBDA l : DecEq(l.price, p))

\* C17: sorting a sorted output again returns it unchanged, and the levels of
\* one price stand in the output in the order they had in the input.
C17_SortsAreIdempotentAndStable ==
    cmd = "book" =>
        /\ bpc \in {"bids_twice", "asks_twice"} => resorted = sorted
        /\ bpc # "call" => \A p \in BookPrices : AtPrice(sorted, p) = AtPrice(levels, p)

\* Two bids of one price, written 0.50 and 0.5, around a higher one: they kept
\* their order, and the second sort changed nothing.
C17_Witness ==
    /\ cmd = "book" /\ bpc = "bids_twice"
    /\ levels = <<Level(Dec(50, 2), Dec(200, 0)), Level(Dec(60, 2), Dec(100, 0)),
                  Level(Dec(5, 1), Dec(100, 0))>>
    /\ sorted = <<Level(Dec(60, 2), Dec(100, 0)), Level(Dec(50, 2), Dec(200, 0)),
                  Level(Dec(5, 1), Dec(100, 0))>>
    /\ resorted = sorted

\* ------------------------------------------------ claims: the balance

Formatted == cmd = "balance" /\ fpc = "returned"

\* d * 10^6 in digits, for a d of at most 6 fractional digits.
TimesMillion(d) ==
    IF d.m = <<"0">> THEN <<"0">>
    ELSE d.m \o [i \in 1..(TokenDecimals - d.s) |-> "0"]

\* C20: for every raw balance r, format_balance(r) * 10^6 = r, with at most 6
\* fractional digits, and format_balance(r) is zero only for r = 0.
C20_FormatBalanceIsExact ==
    Formatted =>
        /\ formatted.s <= TokenDecimals
        /\ TimesMillion(formatted) = raw
        /\ formatted.m = <<"0">> => raw = <<"0">>

\* The same for the balances a Decimal can hold, up to 2^96 - 1.
C20_ExactWithinDecimalRange ==
    (Formatted /\ DigitsLeq(raw, DecimalMaxDigits)) =>
        /\ formatted.s <= TokenDecimals
        /\ TimesMillion(formatted) = raw
        /\ formatted.m = <<"0">> => raw = <<"0">>

\* A balance of 2^96 raw units was formatted as zero.
C20_ZeroForLargeBalance ==
    Formatted /\ raw = TwoPow96Digits /\ formatted = BigZero

\* ------------------------------------------------ claims: the search

Parsed == cmd = "search" /\ ppc = "returned"

\* The array a text is, by the table of the cases.
ArrayOf(text) == (CHOOSE c \in JsonCases : c.text = text).array

BothAreMatchingArrays ==
    /\ ArrayOf(outcomes_str).some /\ ArrayOf(token_ids_str).some
    /\ Len(ArrayOf(outcomes_str).v) > 0
    /\ Len(ArrayOf(outcomes_str).v) = Len(ArrayOf(token_ids_str).v)

\* C21: parse_outcomes returns Some exactly when both texts are JSON arrays of
\* strings of one length that is not zero, and then the i-th pair is the i-th
\* outcome with the i-th token id; in every other case it returns None.
C21_ParseOutcomesPairsMatchingArrays ==
    Parsed =>
        /\ pairs.some <=> BothAreMatchingArrays
        /\ pairs.some =>
            /\ Len(pairs.v) = Len(ArrayOf(outcomes_str).v)
            /\ \A i \in 1..Len(pairs.v) :
                pairs.v[i] = <<ArrayOf(outcomes_str).v[i], ArrayOf(token_ids_str).v[i]>>

\* The unit test test_parse_outcomes_valid: two pairs came back.
C21_Witness ==
    /\ Parsed
    /\ pairs = Some(<<<< <<"Y", "e", "s">>, <<"t", "o", "k", "e", "n", "_", "a">> >>,
                      << <<"N", "o">>, <<"t", "o", "k", "e", "n", "_", "b">> >> >>)

\* The unit test test_parse_outcomes_mismatched_lengths: None came back.
C21_WitnessMismatch ==
    /\ Parsed
    /\ ArrayOf(outcomes_str).some /\ ArrayOf(token_ids_str).some
    /\ Len(ArrayOf(outcomes_str).v) = 2 /\ Len(ArrayOf(token_ids_str).v) = 1
    /\ pairs = None

\* ------------------------------------------------ claims: the status

StatusEnded == cmd = "status" /\ spc \in {"done", "failed"}

BalanceQueried(token) ==
    \E j \in 1..Len(slog) : slog[j].op = "check_balance" /\ slog[j].token = token

BalanceReported(token) == \E j \in 1..Len(sreport) : sreport[j].token = token

\* C26: once the balance loop has begun, the balance of every token is queried
\* whatever the other query answered, and every balance that was read is
\* reported.
C26_BalanceLoopIsFaultTolerant ==
    (StatusEnded /\ \E j \in 1..Len(slog) : slog[j].op = "check_balance") =>
        \A k \in 1..Len(Tokens) :
            /\ BalanceQueried(Tokens[k])
            /\ (\E j \in 1..Len(slog) :
                    /\ slog[j].op = "check_balance" /\ slog[j].token = Tokens[k]
                    /\ slog[j].outcome = "Success") => BalanceReported(Tokens[k])

\* The query for USDC.e failed and native USDC was never queried.
C26_LoopAbortedAtFirstFailure ==
    /\ StatusEnded
    /\ slog[Len(slog)] = SStep("check_balance", "USDC.e", FALSE)
    /\ ~BalanceQueried("USDC (Native)")
    /\ sreport = <<>>

\* --------------------------------------- claims: the approval run, continued

\* The queries of a phase in the order they were made, each as what was asked
\* of which target.
QueriesOf(phase) ==
    LET qs == SelectSeq(alog, LAMBDA e : e.phase = phase /\ IsQuery(e))
    IN [i \in 1..Len(qs) |-> <<qs[i].op, qs[i].target, qs[i].token>>]

\* The q-th query of a read loop over the target list: per target the
\* allowance of USDC.e, the allowance of native USDC, the approval for all.
QueryAt(q) ==
    LET tgt == targets[((q - 1) \div 3) + 1].addr
        kind == ((q - 1) % 3) + 1
    IN IF kind = 1 THEN <<"allowance", tgt, "USDC.e">>
       ELSE IF kind = 2 THEN <<"allowance", tgt, "USDC (Native)">>
       ELSE <<"isApprovedForAll", tgt, "CTF">>

QueryFailed == alog # <<>> /\ IsQuery(alog[Len(alog)]) /\ ~lastOk

\* C23: Checking and Verifying make the same queries in the same order, three
\* per target; a failed query ends neither the phase nor the run, so once a
\* phase is over it has made all its queries whatever failed.
C23_ReadPhasesAskTheSameAndSkipFailures ==
    cmd = "approve" =>
        /\ \A phase \in {"checking", "verifying"} :
            /\ Len(QueriesOf(phase)) <= 3 * Len(targets)
            /\ \A q \in 1..Len(QueriesOf(phase)) : QueriesOf(phase)[q] = QueryAt(q)
        /\ (\E j \in 1..Len(alog) : alog[j].phase \in {"approving", "verifying"}) =>
            Len(QueriesOf("checking")) = 3 * Len(targets)
        /\ (ApproveDone /\ ~dry_run) =>
            /\ Len(QueriesOf("verifying")) = 3 * Len(targets)
            /\ QueriesOf("verifying") = QueriesOf("checking")
        /\ QueryFailed => apc \notin {"failed", "panic"}
        /\ apc \in {"failed", "panic"} => \A j \in 1..Len(alog) : ~IsQuery(alog[j])

\* The first query of Checking failed and the loop stands at the second token.
C23_Witness ==
    /\ cmd = "approve" /\ QueryFailed
    /\ Len(alog) = 2 /\ alog[2].phase = "checking"
    /\ apc = "check_allowance" /\ ti = 1 /\ tk = 2

\* The last query of Verifying failed and the run ended well, all queries made.
C23_WitnessVerifying ==
    /\ ApproveDone /\ QueryFailed
    /\ Len(targets) = 3
    /\ Len(QueriesOf("verifying")) = 9


\* execute is inside approve_token or set_approval_for_all.
Watching == apc \in {"approve_watch", "set_watch"}

\* The transaction calls that have returned.
ReturnedTxs == SelectSeq(alog, IsTx)

\* C22: approval transactions are strictly serialized: at most one transaction
\* is submitted and not yet confirmed, and it is the one of the call execute
\* is inside; outside a call nothing is in flight, so each transaction is
\* submitted only after the call of the previous one has returned, with the
\* transaction included or failed.
C22_TransactionsAreSerialized ==
    cmd = "approve" =>
        /\ Cardinality(inflight) <= 1
        /\ ~Watching => inflight = {}
        /\ Watching => Len(txs) = Len(ReturnedTxs) + 1 /\ inflight \subseteq {txs[Len(txs)]}
        /\ ~Watching => Len(txs) = Len(ReturnedTxs)

\* The fifth transaction in flight, after four that returned, one of them
\* failed.
C22_Witness ==
    /\ cmd = "approve" /\ apc = "approve_watch"
    /\ Len(txs) = 5 /\ inflight = {txs[5]}
    /\ Len(ReturnedTxs) = 4
    /\ \E i \in 1..4 : ReturnedTxs[i].outcome = "Failed"

\* What a complete Approving phase submits: for each target of the list, in the
\* order of the list, approve(target, MAX) on USDC.e, approve(target, MAX) on
\* native USDC and setApprovalForAll(target, true) on the CTF.
ExpectedTxs ==
    [i \in 1..(3 * Len(targets)) |->
        LET t == ((i - 1) \div 3) + 1
            k == ((i - 1) % 3) + 1
        IN  IF k = 3
            THEN [op |-> "setApprovalForAll", target |-> targets[t].addr,
                  token |-> "CTF", value |-> "true"]
            ELSE [op |-> "approve", target |-> targets[t].addr,
                  token |-> IF k = 1 THEN "USDC.e" ELSE "USDC (Native)",
                  value |-> "MAX"]]

\* C27: over a non-dry-run approve each mutation is submitted exactly once, with
\* no retry and no duplicate: what has been submitted so far is a prefix of
\* ExpectedTxs, a complete run has submitted all of it, no transaction occurs
\* twice, and every spender or operator is an address of the target list.
C27_EachMutationSubmittedOnce ==
    cmd = "approve" =>
        /\ IsPrefix(txs, ExpectedTxs)
        /\ ApproveDone /\ ~dry_run => txs = ExpectedTxs
        /\ \A i, j \in 1..Len(txs) : i # j => txs[i] # txs[j]
        /\ \A i \in 1..Len(txs) : \E t \in 1..Len(targets) : txs[i].target = targets[t].addr

\* A complete run over three targets, with a failed transaction: nine
\* submissions, none repeated after the failure.
C27_Witness ==
    /\ ApproveDone /\ ~dry_run
    /\ Len(targets) = 3 /\ Len(txs) = 9
    /\ \E i \in 1..Len(ReturnedTxs) : ReturnedTxs[i].outcome = "Failed"

\* C28: a dry-run approve never reads the private key and never builds a signer
\* or a provider, so the key has no part in its failing: it fails only when the
\* target list cannot be built; a non-dry-run approve whose private key is
\* missing or invalid makes no chain query, submits no transaction and never
\* gets past the wallet, and a missing key is never given to the signer.
C28_DryRunNeedsNoKeyAndBadKeyFailsFirst ==
    cmd = "approve" =>
        /\ dry_run => setup = <<>> /\ txs = <<>> /\ inflight = {}
        /\ dry_run /\ apc = "failed" => build_approval_targets(cfg).tag # "Ok"
        /\ ~dry_run /\ key # "valid" =>
            /\ alog = <<>> /\ txs = <<>> /\ inflight = {}
            /\ apc \in {"start", "built", "failed"}
            /\ \A i \in 1..Len(setup) : setup[i] # "connect"
        /\ ~dry_run /\ key = "missing" => \A i \in 1..Len(setup) : setup[i] = "env_private_key"

\* A dry run that succeeded with no PRIVATE_KEY.
C28_Witness ==
    /\ ApproveDone /\ dry_run /\ key = "missing"
    /\ setup = <<>>
    /\ report = targets /\ Len(targets) = 2

\* A run that failed at the signer, before any call.
C28_WitnessInvalidKey ==
    /\ cmd = "approve" /\ ~dry_run /\ key = "invalid"
    /\ apc = "failed" /\ Len(targets) = 3
    /\ setup = <<"env_private_key", "signer_from_str">>
    /\ alog = <<>>

\* The last call of the log is a query of Verifying.
VerifyingRead ==
    /\ cmd = "approve" /\ alog # <<>>
    /\ alog[Len(alog)].phase = "verifying" /\ IsQuery(alog[Len(alog)])

\* The transaction for the pair returned Failed.
ApprovalFailed(target, token) ==
    \E i \in 1..Len(alog) :
        /\ IsTx(alog[i]) /\ alog[i].target = target /\ alog[i].token = token
        /\ alog[i].outcome = "Failed"

\* C25: a value reported in Verifying comes from a chain query issued after all
\* approval transactions: by then every transaction of the run has been
\* submitted and has returned, no transaction follows a Verifying query, and a
\* query that succeeds reports what the chain holds for its pair at that moment;
\* for a pair whose approval failed and whose allowance on chain is not the
\* requested one, the report is not the requested value.
C25_VerifyingReadsTheChain ==
    VerifyingRead =>
        LET e == alog[Len(alog)] IN
        /\ Len(txs) = 3 * Len(targets) /\ Len(ReturnedTxs) = Len(txs) /\ inflight = {}
        /\ \A i, j \in 1..Len(alog) : alog[i].phase = "verifying" /\ i < j => ~IsTx(alog[j])
        /\ lastOk => lastValue = chain[<<e.target, e.token>>]
        /\ ~lastOk => lastValue = "error"
        /\ (lastOk /\ ApprovalFailed(e.target, e.token)
                /\ chain[<<e.target, e.token>>] # Requested(e.token))
            => lastValue # Requested(e.token)

\* Verifying reports the allowance 0 for a pair whose approval failed, in a run
\* where another approval went through.
C25_Witness ==
    /\ VerifyingRead /\ lastOk
    /\ alog[Len(alog)].op = "allowance"
    /\ ApprovalFailed(alog[Len(alog)].target, alog[Len(alog)].token)
    /\ lastValue = "0"
    /\ \E k \in ChainKeys : chain[k] = "MAX"

\* Verifying reports the maximum for a pair whose approval went through while
\* the chain held 0 for another pair.
C25_WitnessApproved ==
    /\ VerifyingRead /\ lastOk
    /\ lastValue = "MAX"
    /\ \E k \in ChainKeys : chain[k] = "0"

\* The wallet is loaded and the provider connected.
WalletSetUp ==
    /\ cmd = "approve" /\ ~dry_run
    /\ setup = <<"env_private_key", "signer_from_str", "connect">>
    /\ alog # <<>> /\ alog[1].op = "connect" /\ alog[1].outcome = "Success"

\* C24: once the wallet and the provider are set up, a non-dry-run approve
\* never fails and never panics, whatever the queries and the transactions
\* answer, and, every chain call and every sleep returning, it reaches its end
\* and returns Ok.
C24_SetUpRunCompletes ==
    /\ [](WalletSetUp => apc \notin {"failed", "panic"})
    /\ WalletSetUp ~> ApproveDone

\* A run that returned Ok although every one of its nine transactions failed and
\* its last query failed too.
C24_Witness ==
    /\ ApproveDone /\ WalletSetUp
    /\ Len(ReturnedTxs) = 9
    /\ \A i \in 1..9 : ReturnedTxs[i].outcome = "Failed"
    /\ ~lastOk

OrderPanicked == cmd = "order" /\ opc = "panic"

ApprovePanicked == cmd = "approve" /\ apc = "panic"

\* C29: no panic is reachable in the order and approve commands.
C29_NoPanicReachable == ~OrderPanicked /\ ~ApprovePanicked

\* The two places the claim names are not reached: compute_order_amount is
\* called with Buy or Sell only, and approve does not panic at the unwrap.
C29_NamedPanicSitesUnreachable ==
    /\ cmd = "order" => loc.side_enum \in {"-", "Buy", "Sell"}
    /\ ~ApprovePanicked

\* The panic of the order command: a buy of Decimal::MAX shares at the price 2.
C29_OverflowPanic ==
    /\ OrderPanicked
    /\ loc.side_enum = "Buy"
    /\ oamount = DecimalMaxDigits /\ oprice = Some(<<"2">>)
=============================================================================
